---- MODULE Spec2Model ----
(***************************************************************************)
(* GDB Remote Serial Protocol client of mcp-winuae-emu                     *)
(* (src/src/gdb-protocol.ts, class GdbProtocol).                           *)
(*                                                                         *)
(* A byte of the TCP stream is a one-character string; a packet payload, a *)
(* receive buffer and a chunk of a 'data' event are sequences of them, so  *)
(* framing, the checksum and the classification of a payload are computed  *)
(* character by character as the code computes them.                       *)
(***************************************************************************)
EXTENDS Integers, Sequences, FiniteSets, TLC

\* ------------------------------------------------------------------ bounds

\* Number of requests registered in one behaviour, the handshake's included.
MaxReq == 4
\* Number of pieces (packets, ack bytes, noise) of the stream of the framing
\* specification.
MaxPieces == 2

\* Number of typed calls followed in one behaviour.
MaxCalls == 2
\* Number of chunks of the longest writeMemory.
MaxChunks == 2

\* A buffer given to escapeXPacketData has at most MaxBuf bytes.
MaxBuf == 3
\* A payload given to sendPacket has at most MaxPayload characters.
MaxPayload == 3

\* ------------------------------------------------------- strings and bytes

\* JavaScript null (pendingStopReply, a call that returned no value).
NULL == <<"null">>

\* if (v): null and the empty string are falsy.
Truthy(v) == v # NULL /\ v # <<>>

HexDigits == <<"0", "1", "2", "3", "4", "5", "6", "7", "8", "9", "a", "b", "c", "d", "e", "f">>

UpperHex == <<"A", "B", "C", "D", "E", "F">>

isHexDigit(c) == (\E i \in 1..16 : HexDigits[i] = c) \/ (\E i \in 1..6 : UpperHex[i] = c)

hexValue(c) ==
    IF \E i \in 1..16 : HexDigits[i] = c
    THEN (CHOOSE i \in 1..16 : HexDigits[i] = c) - 1
    ELSE (CHOOSE i \in 1..6 : UpperHex[i] = c) + 9

\* String.prototype.charCodeAt on the characters that occur on the wire.
charCodeAt(c) ==
    CASE c = "#" -> 35
      [] c = "$" -> 36
      [] c = "+" -> 43
      [] c = "-" -> 45
      [] c = "K" -> 75
      [] c = "O" -> 79
      [] c = "S" -> 83
      [] c = "T" -> 84
      [] c = "x" -> 120
      [] \E i \in 1..10 : HexDigits[i] = c -> 48 + hexValue(c)
      [] \E i \in 11..16 : HexDigits[i] = c -> 97 + hexValue(c) - 10
      [] \E i \in 1..6 : UpperHex[i] = c -> 65 + hexValue(c) - 10

\* String.prototype.indexOf(ch): 0-based position of the first ch, -1 if none.
indexOf(str, ch) ==
    IF \E i \in 1..Len(str) : str[i] = ch
    THEN (CHOOSE i \in 1..Len(str) : str[i] = ch /\ \A j \in 1..(i - 1) : str[j] # ch) - 1
    ELSE -1

\* String.prototype.slice(from, to) with 0 <= from, to exclusive, clamped.
slice(str, from, to) ==
    LET hi == IF to > Len(str) THEN Len(str) ELSE to
    IN IF from >= hi THEN <<>> ELSE SubSeq(str, from + 1, hi)

startsWith(str, ch) == Len(str) > 0 /\ str[1] = ch

\* parseInt's NaN: no number, unequal to every checksum (and to itself).
NaN == -4096

RECURSIVE hexPrefix(_, _, _)
\* Value of the longest prefix of hex digits of str, NaN when it is empty.
hexPrefix(str, acc, seen) ==
    IF Len(str) > 0 /\ isHexDigit(Head(str))
    THEN hexPrefix(Tail(str), acc * 16 + hexValue(Head(str)), TRUE)
    ELSE IF seen THEN acc ELSE NaN

\* parseInt(str, 16): optional sign, optional 0x prefix, then the longest
\* prefix of hex digits; what follows the digits is ignored.
parseInt16(str) ==
    LET neg == startsWith(str, "-")
        s1 == IF startsWith(str, "-") \/ startsWith(str, "+") THEN Tail(str) ELSE str
        s2 == IF Len(s1) >= 2 /\ s1[1] = "0" /\ (s1[2] = "x" \/ s1[2] = "X")
              THEN slice(s1, 2, Len(s1)) ELSE s1
        v == hexPrefix(s2, 0, FALSE)
    IN IF v = NaN THEN NaN ELSE IF neg THEN 0 - v ELSE v

\* The digit values of the longest prefix of hex digits of str.
hexDigitsOf(str) ==
    LET n == Cardinality({k \in 1..Len(str) : \A j \in 1..k : isHexDigit(str[j])})
    IN [k \in 1..n |-> hexValue(str[k])]

\* The digits without their leading zeros.
stripZeros(digits) ==
    LET z == Cardinality({k \in 1..Len(digits) : \A j \in 1..k : digits[j] = 0})
    IN SubSeq(digits, z + 1, Len(digits))

\* parseInt(str, 16) as a JavaScript number, which holds 32 bits and more:
\* NaN, or a sign and the hex digits of the magnitude without leading
\* zeros (none for 0).
parseInt16Number(str) ==
    LET neg == startsWith(str, "-")
        s1 == IF startsWith(str, "-") \/ startsWith(str, "+") THEN Tail(str) ELSE str
        s2 == IF Len(s1) >= 2 /\ s1[1] = "0" /\ (s1[2] = "x" \/ s1[2] = "X")
              THEN slice(s1, 2, Len(s1)) ELSE s1
        digits == hexDigitsOf(s2)
    IN IF digits = <<>>
       THEN [nan |-> TRUE, neg |-> FALSE, digits |-> <<>>]
       ELSE [nan |-> FALSE, neg |-> neg /\ stripZeros(digits) # <<>>,
             digits |-> stripZeros(digits)]

\* Buffer.from(str, 'hex'): one byte per pair of hex digits, up to the first
\* pair that is not two hex digits; a last single character is dropped.
hexDecode(str) ==
    LET n == Cardinality({k \in 1..(Len(str) \div 2) :
                            \A j \in 1..k : isHexDigit(str[2 * j - 1]) /\ isHexDigit(str[2 * j])})
    IN [k \in 1..n |-> 16 * hexValue(str[2 * k - 1]) + hexValue(str[2 * k])]

RECURSIVE sumCodes(_)
\* for (i = 0; i < data.length; i++) sum += data.charCodeAt(i), added up by
\* halves.
sumCodes(data) ==
    IF data = <<>> THEN 0
    ELSE IF Len(data) = 1 THEN charCodeAt(data[1])
    ELSE sumCodes(SubSeq(data, 1, Len(data) \div 2))
           + sumCodes(SubSeq(data, Len(data) \div 2 + 1, Len(data)))

\* computeChecksum: sum of the character codes, & 0xFF.
computeChecksum(data) == sumCodes(data) % 256

\* checksum.toString(16).padStart(2, '0')
toHex2(n) == <<HexDigits[(n \div 16) + 1], HexDigits[(n % 16) + 1]>>

\* sendPacket's framing: $data#XX.
framePacket(data) == <<"$">> \o data \o <<"#">> \o toHex2(computeChecksum(data))

\* ------------------------------------------------------------------- state

VARIABLES
    socket,            \* this.socket: "null", or the state of the Socket it refers to
    handlers,          \* the 'data', 'error' and 'close' handlers of connect are registered
    closeDue,          \* a destroyed socket with handlers has not emitted 'close' yet
    pendingData,       \* receive buffer of handleData
    noAckMode,
    packetResolvers,   \* FIFO of pending requests, [id, op]
    _isRunning,
    pendingStopReply,  \* the async-stop slot
    timers,            \* ids of the requests whose setTimeout is armed
    nextId,            \* identity of the next promise (its resolve function)
    connPc,            \* position of the connect() call
    useAck,            \* process.env.WINUAE_USE_ACK === '1'
    op,                \* the last operation or event, with what it did to each packet
    ret,               \* what the last call returned without waiting, or NULL
    done,              \* ids of the promises that are settled
    twice,             \* ids of the promises settled more than once
    expired,           \* ids of the promises rejected by their timer
    clean,             \* no promise has been rejected so far
    nDelivered,        \* number of packets delivered to resolvers while clean
    stream,            \* framing specification: bytes not yet received
    fed,               \* framing specification: bytes received so far
    start,             \* framing specification: the protocol object before the stream
    results,           \* framing specification: what the data events did so far
    calls,             \* the calls of the typed API whose outcome is followed
    arg,               \* function specifications: the argument
    res                \* function specifications: <<>>, or <<what the function returned>>

vars == <<socket, handlers, closeDue, pendingData, noAckMode, packetResolvers, _isRunning,
          pendingStopReply, timers, nextId, connPc, useAck, op, ret, done, twice, expired,
          clean, nDelivered, stream, fed, start, results, calls, arg, res>>

protocolVarsButStream == <<socket, handlers, closeDue, pendingData, noAckMode,
                           packetResolvers, _isRunning, pendingStopReply, timers, nextId,
                           connPc, useAck, op, ret, done, twice, expired, clean,
                           nDelivered, calls>>

protocolVars == <<socket, handlers, closeDue, pendingData, noAckMode, packetResolvers,
                  _isRunning, pendingStopReply, timers, nextId, connPc, useAck, op, ret,
                  done, twice, expired, clean, nDelivered, stream, fed, start, results,
                  calls>>

framingVars == <<stream, fed, start, results>>

\* The protocol object, with the record of one operation still empty: wrote
\* (socket.write calls), packets (complete packets extracted), settled
\* (promises resolved or rejected) and ret (value returned without waiting).
This ==
    [socket |-> socket, handlers |-> handlers, closeDue |-> closeDue,
     pendingData |-> pendingData, noAckMode |-> noAckMode,
     packetResolvers |-> packetResolvers, isRunning |-> _isRunning,
     pendingStopReply |-> pendingStopReply, timers |-> timers, nextId |-> nextId,
     connPc |-> connPc, calls |-> calls,
     wrote |-> <<>>, packets |-> <<>>, settled |-> <<>>, ret |-> NULL]

RECURSIVE idsOf(_)
idsOf(events) == IF events = <<>> THEN {} ELSE {Head(events).id} \cup idsOf(Tail(events))

nResolved(events) == Cardinality({i \in 1..Len(events) : events[i].how = "resolve"})

\* new Error(message)
Error(message) == <<message>>

\* What an operation did to each packet: its class, the promise it went to,
\* the caller of that request, the payload.
outline(s) ==
    [i \in 1..Len(s.packets) |->
        <<s.packets[i].class, s.packets[i].to, s.packets[i].caller, s.packets[i].data>>]

\* The protocol object s becomes the state; the observers follow from it.
Commit(s, name) ==
    /\ socket' = s.socket
    /\ handlers' = s.handlers
    /\ closeDue' = s.closeDue
    /\ pendingData' = s.pendingData
    /\ noAckMode' = s.noAckMode
    /\ packetResolvers' = s.packetResolvers
    /\ _isRunning' = s.isRunning
    /\ pendingStopReply' = s.pendingStopReply
    /\ timers' = s.timers
    /\ nextId' = s.nextId
    /\ connPc' = s.connPc
    /\ calls' = s.calls
    /\ op' = name \o outline(s)
    /\ ret' = s.ret
    /\ done' = done \cup idsOf(s.settled)
    /\ twice' = twice \cup (idsOf(s.settled) \cap done)
                      \cup {s.settled[i].id : i \in {k \in 1..Len(s.settled) :
                                \E l \in 1..(k - 1) : s.settled[l].id = s.settled[k].id}}
    /\ expired' = expired \cup {s.settled[i].id : i \in {k \in 1..Len(s.settled) :
                                s.settled[k].val = Error("timeout")}}
    /\ clean' = (clean /\ \A i \in 1..Len(s.settled) : s.settled[i].how = "resolve")
    /\ nDelivered' = IF clean' THEN nDelivered + nResolved(s.settled) ELSE 0
    /\ UNCHANGED <<useAck, arg, res>>

\* ------------------------------------------------------- private helpers

\* socketWrite: this.socket && !this.socket.destroyed
socketWrite(s, bytes) ==
    IF s.socket = "open" \/ s.socket = "connecting"
    THEN [s EXCEPT !.wrote = Append(@, bytes)]
    ELSE s

raw(byte) == [kind |-> "raw", data |-> byte]

\* sendPacket: the command framed as $command#XX in one write.
sendPacket(s, cmd) == socketWrite(s, [kind |-> "packet", data |-> cmd])

\* Variant of register with unshift in place of push: the newest request is
\* served first.
registerFront(s, caller) ==
    [s EXCEPT !.packetResolvers = <<[id |-> s.nextId, op |-> caller]>> \o @,
              !.timers = @ \cup {s.nextId},
              !.nextId = @ + 1]

\* Variant of register without setTimeout.
registerNoTimer(s, caller) ==
    [s EXCEPT !.packetResolvers = Append(@, [id |-> s.nextId, op |-> caller]),
              !.nextId = @ + 1]

\* The executor of the promise of sendCommand, waitForStop and pause: arm the
\* timer and push {resolve, reject, timer}.
register(s, caller) ==
    [s EXCEPT !.packetResolvers = Append(@, [id |-> s.nextId, op |-> caller]),
              !.timers = @ \cup {s.nextId},
              !.nextId = @ + 1]

sendCommand(s, cmd, caller) == sendPacket(register(s, caller), cmd)

settle(s, r, how, val) ==
    [s EXCEPT !.settled = Append(@, [id |-> r.id, op |-> r.op, how |-> how, val |-> val])]

\* for (const resolver of this.packetResolvers): clearTimeout, reject.
RECURSIVE rejectEach(_, _, _)
rejectEach(s, resolvers, error) ==
    IF resolvers = <<>> THEN s
    ELSE rejectEach(settle([s EXCEPT !.timers = @ \ {Head(resolvers).id}],
                           Head(resolvers), "reject", error),
                    Tail(resolvers), error)

\* Variant of rejectAll without this.packetResolvers = [].
rejectAllKeepsQueue(s, error) == rejectEach(s, s.packetResolvers, error)

rejectAll(s, error) ==
    [rejectEach(s, s.packetResolvers, error) EXCEPT !.packetResolvers = <<>>]

\* ------------------------------------------------------------ handleData

\* Variant of incomplete that is off by one: one checksum digit is enough.
incompleteOneDigit(buffer, hashIdx) == hashIdx = -1 \/ hashIdx + 1 >= Len(buffer)

\* hashIdx === -1 || hashIdx + 2 >= this.pendingData.length
incomplete(buffer, hashIdx) == hashIdx = -1 \/ hashIdx + 2 >= Len(buffer)

\* expectedChecksum !== actualChecksum
checksumMismatchNever(checksumStr, packetData) == FALSE

\* expectedChecksum !== actualChecksum
checksumMismatch(checksumStr, packetData) ==
    parseInt16(checksumStr) # computeChecksum(packetData)

RECURSIVE allHex(_)
allHex(str) == str = <<>> \/ (isHexDigit(Head(str)) /\ allHex(Tail(str)))

\* Variant of isConsoleOutput without the regular expression.
isConsoleOutputLoose(packetData) == startsWith(packetData, "O") /\ Len(packetData) > 1

\* startsWith('O') && length > 1 && /^O[0-9a-fA-F]+$/.test(packetData)
isConsoleOutput(packetData) ==
    /\ startsWith(packetData, "O")
    /\ Len(packetData) > 1
    /\ allHex(Tail(packetData))

\* packetData.startsWith('S') || packetData.startsWith('T')
isStopReply(packetData) == startsWith(packetData, "S") \/ startsWith(packetData, "T")

seen(s, packetData, checksumStr, class, to) ==
    [s EXCEPT !.packets = Append(@, [data |-> packetData, checksum |-> checksumStr,
                                     class |-> class, to |-> to.id, caller |-> to.op])]

none == [id |-> 0, op |-> "none"]

\* Variant of deliver with pop in place of shift: the newest request gets
\* the packet.
deliverNewest(s, packetData, checksumStr) ==
    LET resolver == s.packetResolvers[Len(s.packetResolvers)]
        s1 == [s EXCEPT !.packetResolvers = SubSeq(@, 1, Len(@) - 1),
                        !.timers = @ \ {resolver.id},
                        !.isRunning = IF isStopReply(packetData) THEN FALSE ELSE @]
    IN seen(settle(s1, resolver, "resolve", packetData),
            packetData, checksumStr, "reply", resolver)

\* Variant of deliver that clears the running flag for every payload.
deliverClearsFlag(s, packetData, checksumStr) ==
    LET resolver == Head(s.packetResolvers)
        s1 == [s EXCEPT !.packetResolvers = Tail(@),
                        !.timers = @ \ {resolver.id},
                        !.isRunning = FALSE]
    IN seen(settle(s1, resolver, "resolve", packetData),
            packetData, checksumStr, "reply", resolver)

\* Variant of deliver without clearTimeout.
deliverKeepsTimer(s, packetData, checksumStr) ==
    LET resolver == Head(s.packetResolvers)
        s1 == [s EXCEPT !.packetResolvers = Tail(@),
                        !.isRunning = IF isStopReply(packetData) THEN FALSE ELSE @]
    IN seen(settle(s1, resolver, "resolve", packetData),
            packetData, checksumStr, "reply", resolver)

\* Deliver to waiting resolver: shift, clearTimeout, resolve.
deliver(s, packetData, checksumStr) ==
    LET resolver == Head(s.packetResolvers)
        s1 == [s EXCEPT !.packetResolvers = Tail(@),
                        !.timers = @ \ {resolver.id},
                        !.isRunning = IF isStopReply(packetData) THEN FALSE ELSE @]
    IN seen(settle(s1, resolver, "resolve", packetData),
            packetData, checksumStr, "reply", resolver)

\* Variant of accept that acknowledges in no-ack mode too.
acceptAlwaysAcks(s, packetData, checksumStr) ==
    LET s1 == socketWrite(s, raw("+"))
    IN IF isConsoleOutput(packetData)
       THEN seen(s1, packetData, checksumStr, "console", none)
       ELSE IF isStopReply(packetData) /\ Len(s1.packetResolvers) = 0
       THEN seen([s1 EXCEPT !.pendingStopReply = packetData, !.isRunning = FALSE],
                 packetData, checksumStr, "async", none)
       ELSE IF Len(s1.packetResolvers) > 0
       THEN deliver(s1, packetData, checksumStr)
       ELSE seen(s1, packetData, checksumStr, "unsolicited", none)

\* Variant of accept that keeps every stop reply in the slot, delivered or
\* not.
acceptKeepsEveryStop(s, packetData, checksumStr) ==
    LET s1 == IF ~s.noAckMode THEN socketWrite(s, raw("+")) ELSE s
        s2 == IF isStopReply(packetData) THEN [s1 EXCEPT !.pendingStopReply = packetData] ELSE s1
    IN IF isConsoleOutput(packetData)
       THEN seen(s1, packetData, checksumStr, "console", none)
       ELSE IF isStopReply(packetData) /\ Len(s1.packetResolvers) = 0
       THEN seen([s1 EXCEPT !.pendingStopReply = packetData, !.isRunning = FALSE],
                 packetData, checksumStr, "async", none)
       ELSE IF Len(s1.packetResolvers) > 0
       THEN deliver(s2, packetData, checksumStr)
       ELSE seen(s1, packetData, checksumStr, "unsolicited", none)

\* Variant of accept that takes an unsolicited packet for a sign that the
\* target stopped.
acceptUnsolicitedStops(s, packetData, checksumStr) ==
    LET s1 == IF ~s.noAckMode THEN socketWrite(s, raw("+")) ELSE s
    IN IF isConsoleOutput(packetData)
       THEN seen(s1, packetData, checksumStr, "console", none)
       ELSE IF isStopReply(packetData) /\ Len(s1.packetResolvers) = 0
       THEN seen([s1 EXCEPT !.pendingStopReply = packetData, !.isRunning = FALSE],
                 packetData, checksumStr, "async", none)
       ELSE IF Len(s1.packetResolvers) > 0
       THEN deliver(s1, packetData, checksumStr)
       ELSE seen([s1 EXCEPT !.isRunning = FALSE], packetData, checksumStr, "unsolicited", none)

\* A packet whose checksum matched: ack, classification, dispatch.
accept(s, packetData, checksumStr) ==
    LET s1 == IF ~s.noAckMode THEN socketWrite(s, raw("+")) ELSE s
    IN IF isConsoleOutput(packetData)
       THEN seen(s1, packetData, checksumStr, "console", none)
       ELSE IF isStopReply(packetData) /\ Len(s1.packetResolvers) = 0
       THEN seen([s1 EXCEPT !.pendingStopReply = packetData, !.isRunning = FALSE],
                 packetData, checksumStr, "async", none)
       ELSE IF Len(s1.packetResolvers) > 0
       THEN deliver(s1, packetData, checksumStr)
       ELSE seen(s1, packetData, checksumStr, "unsolicited", none)

\* Variant of dispatch without the continue after the nack: the packet is
\* nacked and handled all the same.
dispatchAfterNack(s, packetData, checksumStr) ==
    IF checksumMismatch(checksumStr, packetData)
    THEN accept(IF ~s.noAckMode THEN socketWrite(s, raw("-")) ELSE s,
                packetData, checksumStr)
    ELSE accept(s, packetData, checksumStr)

\* One extracted packet: verify the checksum; nack and drop, or accept.
dispatch(s, packetData, checksumStr) ==
    IF checksumMismatch(checksumStr, packetData)
    THEN seen(IF ~s.noAckMode THEN socketWrite(s, raw("-")) ELSE s,
              packetData, checksumStr, "mismatch", none)
    ELSE accept(s, packetData, checksumStr)

RECURSIVE drain(_)
\* while (this.pendingData.length > 0) { ... }
drain(s) ==
    IF Len(s.pendingData) = 0 THEN s
    ELSE IF Head(s.pendingData) = "+" \/ Head(s.pendingData) = "-"
    THEN drain([s EXCEPT !.pendingData = Tail(@)])
    ELSE LET dollarIdx == indexOf(s.pendingData, "$")
         IN IF dollarIdx = -1
            THEN [s EXCEPT !.pendingData = <<>>]
            ELSE LET buffer == slice(s.pendingData, dollarIdx, Len(s.pendingData))
                     hashIdx == indexOf(buffer, "#")
                 IN IF incomplete(buffer, hashIdx)
                    THEN [s EXCEPT !.pendingData = buffer]
                    ELSE drain(dispatch(
                             [s EXCEPT !.pendingData = slice(buffer, hashIdx + 3, Len(buffer))],
                             slice(buffer, 1, hashIdx),
                             slice(buffer, hashIdx + 1, hashIdx + 3)))

\* handleData(data): append the chunk, then extract every complete packet.
handleData(s, data) == drain([s EXCEPT !.pendingData = @ \o data])

\* -------------------------------------------- what the awaiting callers do

OK == <<"O", "K">>

\* Variant of afterStep without this._isRunning = false.
afterStepKeepsFlag(s, e) == s

\* step() after its await: the flag is cleared when the reply is there,
\* whatever the reply; a rejection leaves step at the await.
afterStep(s, e) == IF e.how = "resolve" THEN [s EXCEPT !.isRunning = FALSE] ELSE s

\* What a call of the typed API throws: the message up to the key, the
\* address or register id in it (none: empty), the reply quoted in it.
thrown(message, key, reply) == [message |-> message, key |-> key, reply |-> reply]

nothing == thrown("", <<>>, NULL)

\* The calls that accept no reply but OK.
OkCalls == {"setBreakpoint", "clearBreakpoint", "setWatchpoint", "clearWatchpoint",
            "writeRegister", "writeRegisters"}

\* The call that awaits the request whose promise is id.
awaiting(s, id) ==
    CHOOSE i \in 1..Len(s.calls) : s.calls[i].req = id /\ s.calls[i].state = "pending"

failed(name) ==
    CASE name = "setBreakpoint" -> "Set breakpoint failed at $"
      [] name = "clearBreakpoint" -> "Clear breakpoint failed at $"
      [] name = "setWatchpoint" -> "Set watchpoint failed at $"
      [] name = "clearWatchpoint" -> "Clear watchpoint failed at $"
      [] name = "writeRegister" -> "Register write failed for reg "
      [] name = "writeRegisters" -> "Register write-all failed"

\* if (reply !== 'OK') throw new Error(...)
replyError(c, reply) ==
    IF c.name = "writeRegisters"
    THEN thrown(failed(c.name), <<>>, reply)
    ELSE thrown(failed(c.name), <<c.addr>>, reply)

reject(s, i, error) == [s EXCEPT !.calls[i].state = "rejected", !.calls[i].value = error]

\* return value: the async function resolves with it.
return(s, i, value) == [s EXCEPT !.calls[i].state = "resolved", !.calls[i].result = value]

\* The rejection of the awaited request leaves the async function as it is.
rethrown(e) == thrown(e.val[1], <<>>, NULL)

\* Variant of afterCall that rejects error replies (E..) only, as readMemory
\* and sendMonitorCommand do.
afterCallLenient(s, e) ==
    LET i == awaiting(s, e.id)
    IN IF e.how = "reject" THEN reject(s, i, rethrown(e))
       ELSE IF startsWith(e.val, "E") THEN reject(s, i, replyError(s.calls[i], e.val))
       ELSE [s EXCEPT !.calls[i].state = "resolved"]

\* A call of OkCalls after its await.
afterCall(s, e) ==
    LET i == awaiting(s, e.id)
    IN IF e.how = "reject" THEN reject(s, i, rethrown(e))
       ELSE IF e.val # OK THEN reject(s, i, replyError(s.calls[i], e.val))
       ELSE [s EXCEPT !.calls[i].state = "resolved"]

\* The calls that return what the reply holds.
ReadCalls == {"readRegisters", "readRegister", "readMemory", "sendMonitorCommand"}

REGISTER_NAMES ==
    <<"D0", "D1", "D2", "D3", "D4", "D5", "D6", "D7",
      "A0", "A1", "A2", "A3", "A4", "A5", "A6", "A7", "SR", "PC">>

\* Variant of parseRegisters that reads the fields from the end of the reply.
parseRegistersFromEnd(reply) ==
    [i \in 1..Len(REGISTER_NAMES) |->
        parseInt16Number(slice(reply, Len(reply) - 8 * i, Len(reply) - 8 * i + 8))]

\* for (let i = 0; i < 18; i++) regs[REGISTER_NAMES[i]] = parseInt(reply.slice(i * 8, i * 8 + 8), 16)
parseRegisters(reply) ==
    [i \in 1..Len(REGISTER_NAMES) |->
        parseInt16Number(slice(reply, (i - 1) * 8, (i - 1) * 8 + 8))]

\* readRegisters after its await.
afterReadRegisters(s, i, reply) ==
    IF Len(reply) < 144
    THEN reject(s, i, thrown("Register reply too short: ", <<Len(reply)>>, NULL))
    ELSE return(s, i, parseRegisters(reply))

\* readRegister after its await: return parseInt(reply, 16).
afterReadRegister(s, i, reply) == return(s, i, <<parseInt16Number(reply)>>)

\* readMemory after its await.
afterReadMemory(s, i, reply) ==
    IF startsWith(reply, "E")
    THEN reject(s, i, thrown("Memory read error at $", <<s.calls[i].addr>>, reply))
    ELSE return(s, i, hexDecode(reply))

\* sendMonitorCommand after its await.
afterMonitorCommand(s, i, reply) ==
    IF startsWith(reply, "E")
    THEN reject(s, i, thrown("Monitor command failed", <<>>, reply))
    ELSE return(s, i, reply)

\* A call of ReadCalls after its await.
afterRead(s, e) ==
    LET i == awaiting(s, e.id)
    IN IF e.how = "reject" THEN reject(s, i, rethrown(e))
       ELSE CASE e.op = "readRegisters" -> afterReadRegisters(s, i, e.val)
              [] e.op = "readRegister" -> afterReadRegister(s, i, e.val)
              [] e.op = "readMemory" -> afterReadMemory(s, i, e.val)
              [] e.op = "sendMonitorCommand" -> afterMonitorCommand(s, i, e.val)

CHUNK_SIZE == 256

\* Variant of chunkLen that always takes a full chunk.
chunkLenFull(length, offset) == CHUNK_SIZE

\* Math.min(CHUNK_SIZE, data.length - offset)
chunkLen(length, offset) ==
    IF CHUNK_SIZE < length - offset THEN CHUNK_SIZE ELSE length - offset

\* writeMemory sends one command for the chunk at offset and awaits it.
sendChunk(s, i, type) ==
    LET c == s.calls[i]
        cmd == [type |-> type, addr |-> c.currentAddr, len |-> chunkLen(c.len, c.offset)]
        s1 == sendCommand(s, cmd, "writeMemory")
    IN [s1 EXCEPT !.calls[i].req = s.nextId,
                  !.calls[i].issued = Append(@, [type |-> cmd.type, addr |-> cmd.addr,
                                                 len |-> cmd.len, id |-> s.nextId,
                                                 how |-> "pending", val |-> NULL,
                                                 running |-> s.isRunning])]

\* while (offset < data.length): the next chunk's M command, or the end.
writeLoop(s, i) ==
    IF s.calls[i].offset < s.calls[i].len
    THEN sendChunk(s, i, "M")
    ELSE [s EXCEPT !.calls[i].state = "resolved"]

\* Variant of replyIsOK that takes every reply but an error reply (E..).
replyNotError(reply) == ~startsWith(reply, "E")

\* reply !== 'OK' is false
replyIsOK(reply) == reply = OK

\* writeMemory after an await: the catch of the M command sends X for the
\* same chunk, a rejected X leaves the function, a reply that is not OK
\* throws, and OK moves on to the next chunk.
afterWrite(s, e) ==
    LET i == awaiting(s, e.id)
        c == s.calls[i]
        n == Len(c.issued)
        s1 == [s EXCEPT !.calls[i].issued[n].how = e.how, !.calls[i].issued[n].val = e.val]
    IN IF e.how = "reject" /\ c.issued[n].type = "M"
       THEN sendChunk(s1, i, "X")
       ELSE IF e.how = "reject"
       THEN reject(s1, i, rethrown(e))
       ELSE IF ~replyIsOK(e.val)
       THEN reject(s1, i, thrown("Memory write error at $", <<c.currentAddr>>, e.val))
       ELSE writeLoop([s1 EXCEPT !.calls[i].offset = @ + chunkLen(c.len, c.offset),
                                 !.calls[i].currentAddr = @ + chunkLen(c.len, c.offset)], i)

\* connect() after await sendCommand('qSupported...'): a rejection leaves
\* connect; else QStartNoAckMode unless WINUAE_USE_ACK=1, then '?'.
afterQSupported(s, e) ==
    IF e.how = "reject" THEN [s EXCEPT !.connPc = "failed"]
    ELSE IF ~useAck
    THEN sendCommand([s EXCEPT !.connPc = "QStartNoAckMode"],
                     "QStartNoAckMode", "QStartNoAckMode")
    ELSE sendCommand([s EXCEPT !.connPc = "?"], "?", "?")

\* Variant of afterNoAck that takes the connection for ready without the
\* halt-reason query.
afterNoAckSkipsHalt(s, e) ==
    [s EXCEPT !.connPc = "ready",
              !.noAckMode = IF e.how = "resolve" /\ e.val = OK THEN TRUE ELSE @]

\* Variant of afterNoAck that takes any reply for an agreement.
afterNoAckAnyReply(s, e) ==
    sendCommand([s EXCEPT !.connPc = "?",
                          !.noAckMode = IF e.how = "resolve" THEN TRUE ELSE @],
                "?", "?")

\* connect() after the try around await sendCommand('QStartNoAckMode'):
\* no-ack mode when the reply is OK; the catch swallows a rejection; then '?'.
afterNoAck(s, e) ==
    sendCommand([s EXCEPT !.connPc = "?",
                          !.noAckMode = IF e.how = "resolve" /\ e.val = OK
                                        THEN TRUE ELSE @],
                "?", "?")

\* connect() after await sendCommand('?'): connect resolves, or rejects.
afterHalt(s, e) == [s EXCEPT !.connPc = IF e.how = "resolve" THEN "ready" ELSE "failed"]

\* winuae_memory_write after try { await protocol.pause() } catch {}:
\* whatever pause() came to, protocol.writeMemory(addr, bytes) is called. A
\* pause() that no tool call awaits has no reaction here.
afterPause(s, e) ==
    IF \E i \in 1..Len(s.calls) : s.calls[i].req = e.id /\ s.calls[i].state = "pending"
    THEN writeLoop(s, awaiting(s, e.id))
    ELSE s

\* The code after an await, run when the awaited promise is settled: step
\* clears the running flag, connect goes on with the handshake, a typed call
\* checks its reply, writeMemory goes on with its chunks.
continuation(s, e) ==
    CASE e.op = "step" -> afterStep(s, e)
      [] e.op \in OkCalls -> afterCall(s, e)
      [] e.op = "writeMemory" -> afterWrite(s, e)
      [] e.op \in ReadCalls -> afterRead(s, e)
      [] e.op = "qSupported" -> afterQSupported(s, e)
      [] e.op = "QStartNoAckMode" -> afterNoAck(s, e)
      [] e.op = "?" -> afterHalt(s, e)
      [] e.op = "pause" -> afterPause(s, e)
      [] OTHER -> s

RECURSIVE runFrom(_, _)
runFrom(s, i) ==
    IF i > Len(s.settled) THEN s ELSE runFrom(continuation(s, s.settled[i]), i + 1)

\* The promise reactions run after the handler that settled the promises.
microtasks(s) == runFrom(s, 1)

\* ------------------------------------------------------- socket and events

\* Requests the handshake of the connect() in progress has yet to register.
handshakeLeft ==
    CASE connPc \in {"tcp", "sleep"} -> IF useAck THEN 2 ELSE 3
      [] connPc = "qSupported" -> IF useAck THEN 1 ELSE 2
      [] connPc = "QStartNoAckMode" -> 1
      [] OTHER -> 0

\* A caller may register one more request within the bound.
mayRegister == nextId + handshakeLeft <= MaxReq

\* connect(): new Socket(), socket.connect(port, host, ...).
connect ==
    /\ connPc = "idle"
    /\ nextId + (IF useAck THEN 2 ELSE 3) <= MaxReq + 1
    /\ Commit([This EXCEPT !.socket = "connecting", !.connPc = "tcp"], <<"connect">>)
    /\ UNCHANGED framingVars

\* The TCP connection is made: connect registers its handlers, sends Ctrl+C
\* unless WINUAE_FORCE_BREAK=0 and sleeps, or starts the handshake at once.
onConnected(s, forceBreak) ==
    LET s1 == [s EXCEPT !.socket = "open", !.handlers = TRUE]
    IN IF forceBreak
       THEN socketWrite([s1 EXCEPT !.connPc = "sleep"], raw("0x03"))
       ELSE sendCommand([s1 EXCEPT !.connPc = "qSupported"], "qSupported", "qSupported")

tcpConnected ==
    /\ connPc = "tcp"
    /\ socket = "connecting"
    /\ \E forceBreak \in BOOLEAN : Commit(onConnected(This, forceBreak), <<"tcpConnected">>)
    /\ UNCHANGED framingVars

\* The socket fails before it is connected: connect rejects.
tcpError ==
    /\ connPc = "tcp"
    /\ socket = "connecting"
    /\ Commit([This EXCEPT !.socket = "destroyed", !.connPc = "failed"], <<"tcpError">>)
    /\ UNCHANGED framingVars

\* The connect timer fires first: connect rejects, the socket is left as it is.
connectTimeout ==
    /\ connPc = "tcp"
    /\ Commit([This EXCEPT !.connPc = "failed"], <<"connectTimeout">>)
    /\ UNCHANGED framingVars

\* The 500 ms after Ctrl+C are over: qSupported is sent.
sleepDone ==
    /\ connPc = "sleep"
    /\ Commit(sendCommand([This EXCEPT !.connPc = "qSupported"], "qSupported", "qSupported"),
              <<"sleepDone">>)
    /\ UNCHANGED framingVars

S05 == <<"S", "0", "5">>

T05 == <<"T", "0", "5">>

O4b == <<"O", "4", "b">>

\* Chunks of the byte stream a 'data' event may carry.
Chunks ==
    { framePacket(OK),
      framePacket(S05),
      framePacket(T05),
      framePacket(O4b),
      framePacket(OK) \o framePacket(S05),
      <<"$", "S", "0", "5", "#", "b", "9">>,
      <<"$", "O", "K", "#", "9">>,
      <<"a">> }

\* socket.on('data'): handleData, then the reactions of the resolved promises.
onData(s, chunk) == microtasks(handleData(s, chunk))

dataEnabled == socket = "open" /\ handlers

data ==
    /\ dataEnabled
    /\ \E chunk \in Chunks : Commit(onData(This, chunk), <<"data">>)
    /\ UNCHANGED framingVars

\* socket.on('error'): the socket is destroyed and its pending requests fail.
onError(s) ==
    microtasks(rejectAll([s EXCEPT !.socket = "destroyed", !.closeDue = TRUE],
                         Error("Socket error")))

socketError ==
    /\ socket = "open"
    /\ handlers
    /\ Commit(onError(This), <<"error">>)
    /\ UNCHANGED framingVars

\* socket.on('close'): the peer closed, or a destroyed socket reports it.
onClose(s) ==
    microtasks(rejectAll([s EXCEPT !.socket = IF @ = "open" THEN "destroyed" ELSE @,
                                   !.closeDue = FALSE],
                         Error("Socket closed")))

closeEnabled == (socket = "open" /\ handlers) \/ closeDue

socketClose ==
    /\ closeEnabled
    /\ Commit(onClose(This), <<"close">>)
    /\ UNCHANGED framingVars

\* get connected(): this.socket !== null && !this.socket.destroyed
connected(s) == s.socket # "null" /\ s.socket # "destroyed"

\* Variant of disconnect that also resets the flags of the session.
disconnectResets(s) ==
    microtasks([rejectAll(s, Error("Disconnected"))
                  EXCEPT !.socket = "null",
                         !.closeDue = (@ \/ (s.socket = "open" /\ s.handlers)),
                         !.handlers = FALSE,
                         !.isRunning = FALSE,
                         !.noAckMode = FALSE,
                         !.pendingStopReply = NULL])

\* disconnect(): rejectAll, socket.destroy(), this.socket = null.
disconnectOn(s) ==
    microtasks([rejectAll(s, Error("Disconnected"))
                  EXCEPT !.socket = "null",
                         !.closeDue = (@ \/ (s.socket = "open" /\ s.handlers)),
                         !.handlers = FALSE])

disconnect ==
    /\ Commit(disconnectOn(This), <<"disconnect">>)
    /\ UNCHANGED framingVars

\* -------------------------------------------------------------- public API

\* A typed command (readRegister, readMemory, setBreakpoint, ...): one
\* sendCommand whose reply the caller awaits.
command ==
    /\ mayRegister
    /\ Commit(sendCommand(This, "g", "command"), <<"command">>)
    /\ UNCHANGED framingVars

\* Variant of continue that keeps a stale async-stop value.
continueKeepsSlot(s) == sendPacket([s EXCEPT !.isRunning = TRUE], "vCont;c")

\* continue(): fire and forget.
continueOn(s) ==
    sendPacket([s EXCEPT !.pendingStopReply = NULL, !.isRunning = TRUE], "vCont;c")

continue ==
    /\ Commit(continueOn(This), <<"continue">>)
    /\ UNCHANGED framingVars

\* Variant of waitForStop that returns the buffered stop reply and keeps it.
waitForStopKeepsSlot(s) ==
    IF Truthy(s.pendingStopReply)
    THEN [s EXCEPT !.isRunning = FALSE, !.ret = s.pendingStopReply]
    ELSE register(s, "waitForStop")

\* waitForStop(): the buffered stop reply, or a pending request without a write.
waitForStopOn(s) ==
    IF Truthy(s.pendingStopReply)
    THEN [s EXCEPT !.pendingStopReply = NULL, !.isRunning = FALSE, !.ret = s.pendingStopReply]
    ELSE register(s, "waitForStop")

waitForStop ==
    /\ Truthy(pendingStopReply) \/ mayRegister
    /\ Commit(waitForStopOn(This), <<"waitForStop">>)
    /\ UNCHANGED framingVars

\* step(): vCont;s, awaited; the flag is cleared when the reply is there.
stepOn(s) == sendCommand([s EXCEPT !.isRunning = TRUE], "vCont;s", "step")

step ==
    /\ mayRegister
    /\ Commit(stepOn(This), <<"step">>)
    /\ UNCHANGED framingVars

\* Variant of pause that returns the buffered stop reply and keeps it.
pauseKeepsSlot(s) ==
    IF Truthy(s.pendingStopReply)
    THEN [s EXCEPT !.ret = s.pendingStopReply]
    ELSE IF ~s.isRunning
    THEN [s EXCEPT !.ret = <<"S", "0", "0">>]
    ELSE socketWrite(register(s, "pause"), raw("0x03"))

\* pause(): the buffered stop reply, S00 when not running, else the raw
\* interrupt byte and a pending request.
pauseOn(s) ==
    IF Truthy(s.pendingStopReply)
    THEN [s EXCEPT !.pendingStopReply = NULL, !.ret = s.pendingStopReply]
    ELSE IF ~s.isRunning
    THEN [s EXCEPT !.ret = <<"S", "0", "0">>]
    ELSE socketWrite(register(s, "pause"), raw("0x03"))

pause ==
    /\ Truthy(pendingStopReply) \/ ~_isRunning \/ mayRegister
    /\ Commit(pauseOn(This), <<"pause">>)
    /\ UNCHANGED framingVars

\* Variant of splice that removes the head of the queue (shift), whichever
\* request timed out.
spliceHead(resolvers, id) == IF resolvers = <<>> THEN <<>> ELSE Tail(resolvers)

\* The resolvers other than the one whose resolve function is promise id.
RECURSIVE splice(_, _)
splice(resolvers, id) ==
    IF resolvers = <<>> THEN <<>>
    ELSE IF Head(resolvers).id = id THEN Tail(resolvers)
    ELSE <<Head(resolvers)>> \o splice(Tail(resolvers), id)

callerOf(resolvers, id) ==
    IF \E i \in 1..Len(resolvers) : resolvers[i].id = id
    THEN resolvers[CHOOSE i \in 1..Len(resolvers) : resolvers[i].id = id].op
    ELSE "settled"

\* The setTimeout callback of a request: findIndex, splice, reject.
expire(s, id) ==
    settle([s EXCEPT !.packetResolvers = splice(@, id), !.timers = @ \ {id}],
           [id |-> id, op |-> callerOf(s.packetResolvers, id)],
           "reject", Error("timeout"))

onTimeout(s, id) == microtasks(expire(s, id))

timeout ==
    /\ \E id \in timers : Commit(onTimeout(This, id), <<"timeout">>)
    /\ UNCHANGED framingVars

\* ------------------------------------------------------------ typed calls

newCall(name, addr, length) ==
    [name |-> name, addr |-> addr, len |-> length, req |-> 0, offset |-> 0,
     currentAddr |-> addr, issued |-> <<>>, state |-> "pending", value |-> nothing,
     result |-> <<>>, noPause |-> FALSE]

\* setBreakpoint, clearBreakpoint, setWatchpoint, clearWatchpoint,
\* writeRegister, writeRegisters: one command, awaited.
callOn(s, name, addr) ==
    LET s1 == sendCommand(s, [type |-> name, addr |-> addr, len |-> 0], name)
    IN [s1 EXCEPT !.calls = Append(@, [newCall(name, addr, 0) EXCEPT !.req = s.nextId])]

\* writeMemory(addr, data) with data.length = length, up to its first await.
writeMemoryOn(s, addr, length) ==
    writeLoop([s EXCEPT !.calls = Append(@, newCall("writeMemory", addr, length))],
              Len(s.calls) + 1)

Addrs == {8192}

\* Lengths of the data of writeMemory: nothing, full chunks only, and full
\* chunks with a rest of 44 bytes.
Sizes == {0, CHUNK_SIZE * (MaxChunks - 1), CHUNK_SIZE * (MaxChunks - 1) + 44}

call ==
    /\ Len(calls) < MaxCalls
    /\ \E name \in OkCalls, addr \in Addrs : Commit(callOn(This, name, addr), <<"call">>)
    /\ UNCHANGED framingVars

writeMemory ==
    /\ Len(calls) < MaxCalls
    /\ \E addr \in Addrs, length \in Sizes :
         Commit(writeMemoryOn(This, addr, length), <<"writeMemory">>)
    /\ UNCHANGED framingVars

E01 == <<"E", "0", "1">>

\* What the target answers a command with: OK, an error reply, the empty
\* reply of an unsupported command, a stop reply.
Replies == {framePacket(OK), framePacket(E01), framePacket(<<>>), framePacket(S05)}

reply ==
    /\ dataEnabled
    /\ \E chunk \in Replies : Commit(onData(This, chunk), <<"data">>)
    /\ UNCHANGED framingVars

\* A connected client after the handshake (requests 1 to 3) in no-ack mode.
CallsInit ==
    /\ socket = "open"
    /\ handlers = TRUE
    /\ closeDue = FALSE
    /\ pendingData = <<>>
    /\ noAckMode = TRUE
    /\ packetResolvers = <<>>
    /\ _isRunning = FALSE
    /\ pendingStopReply = NULL
    /\ timers = {}
    /\ nextId = 4
    /\ connPc = "ready"
    /\ useAck = FALSE
    /\ op = <<"new">>
    /\ ret = NULL
    /\ done = 1..3
    /\ twice = {}
    /\ expired = {}
    /\ clean = TRUE
    /\ nDelivered = 3
    /\ stream = <<>>
    /\ fed = <<>>
    /\ start = <<>>
    /\ results = <<>>
    /\ calls = <<>>
    /\ arg = <<>>
    /\ res = <<>>

CallsNext ==
    \/ call
    \/ writeMemory
    \/ reply
    \/ timeout
    \/ socketError
    \/ socketClose
    \/ disconnect

SpecCalls == CallsInit /\ [][CallsNext]_vars

\* -------------------------------------------------------------- tool calls

\* case 'winuae_memory_write' of the tool handler, up to the first await that
\* has to wait: pause() unless WINUAE_MEMORY_WRITE_NO_PAUSE=1, then
\* writeMemory. pause() returns at once when a stop reply is buffered or the
\* running flag is false.
memoryWriteOn(s, addr, length, noPause) ==
    LET i == Len(s.calls) + 1
        s0 == [s EXCEPT !.calls = Append(@, [newCall("winuae_memory_write", addr, length)
                                               EXCEPT !.noPause = noPause])]
        p == pauseOn(s0)
    IN IF noPause THEN writeLoop(s0, i)
       ELSE IF Len(p.packetResolvers) = Len(s.packetResolvers)
       THEN writeLoop([p EXCEPT !.ret = NULL], i)
       ELSE [p EXCEPT !.calls[i].req = s.nextId]

\* Lengths of the data of a tool call: nothing, or less than one chunk.
ToolSizes == {0, 44}

\* A winuae_memory_write request arrives; the connection is up.
winuae_memory_write ==
    /\ Len(calls) < MaxCalls
    /\ socket = "open"
    /\ \E addr \in Addrs, length \in ToolSizes, noPause \in BOOLEAN :
         Commit(memoryWriteOn(This, addr, length, noPause), <<"winuae_memory_write">>)
    /\ UNCHANGED framingVars

ToolsNext ==
    \/ continue
    \/ winuae_memory_write
    \/ reply
    \/ timeout

SpecTools == CallsInit /\ [][ToolsNext]_vars

\* ------------------------------------------------------------- read calls

\* readRegisters, readRegister(id), readMemory(addr, length),
\* sendMonitorCommand(command): one command, awaited.
read ==
    /\ Len(calls) < MaxCalls
    /\ \E name \in ReadCalls, addr \in Addrs : Commit(callOn(This, name, addr), <<"read">>)
    /\ UNCHANGED framingVars

zeros == <<"0", "0", "0", "0", "0", "0", "0", "0">>

\* Hex fields of eight characters a register may read as.
Fields ==
    { <<"d", "e", "a", "d", "b", "e", "e", "f">>,
      <<"0", "0", "c", "0", "0", "2", "7", "6">>,
      <<"F", "F", "F", "F", "F", "F", "F", "F">> }

RECURSIVE fieldsOf(_, _, _)
\* n fields, all zero but the i-th, which is field.
fieldsOf(n, i, field) ==
    IF n = 0 THEN <<>>
    ELSE fieldsOf(n - 1, i, field) \o (IF n = i THEN field ELSE zeros)

\* Replies to g: the 144 characters of 18 registers, one of them not zero;
\* one character less; the registers without PC; one field more.
RegisterReplies ==
    LET full == {fieldsOf(18, i, f) : i \in {1, 18}, f \in Fields}
        pc == fieldsOf(18, 18, <<"0", "0", "c", "0", "0", "2", "7", "6">>)
    IN full \cup {SubSeq(pc, 1, 143), SubSeq(pc, 1, 136), pc \o zeros}

\* Replies to m, p and qRcmd: hex data in lower and upper case, data that
\* starts with the byte 0xEA, an odd number of digits, error replies, OK,
\* the empty reply.
DataReplies ==
    { <<"d", "e", "a", "d", "b", "e", "e", "f">>,
      <<"0", "0", "c", "0", "0", "2", "7", "6">>,
      <<"e", "a", "6", "0">>,
      <<"E", "A", "6", "0">>,
      <<"4", "e", "7">>,
      <<"E", "0", "1">>,
      <<"E", "1", "4">>,
      OK,
      <<>> }

\* The target answers a command that is pending.
readReply ==
    /\ dataEnabled
    /\ packetResolvers # <<>>
    /\ \E payload \in RegisterReplies \cup DataReplies :
         Commit(onData(This, framePacket(payload)), <<"data">>)
    /\ UNCHANGED framingVars

ReadsNext ==
    \/ read
    \/ readReply
    \/ timeout

SpecReads == CallsInit /\ [][ReadsNext]_vars

\* ---------------------------------------------------------- specification

Init ==
    /\ socket = "null"
    /\ handlers = FALSE
    /\ closeDue = FALSE
    /\ pendingData = <<>>
    /\ noAckMode = FALSE
    /\ packetResolvers = <<>>
    /\ _isRunning = FALSE
    /\ pendingStopReply = NULL
    /\ timers = {}
    /\ nextId = 1
    /\ connPc = "idle"
    /\ useAck \in BOOLEAN
    /\ op = <<"new">>
    /\ ret = NULL
    /\ done = {}
    /\ twice = {}
    /\ expired = {}
    /\ clean = TRUE
    /\ nDelivered = 0
    /\ stream = <<>>
    /\ fed = <<>>
    /\ start = <<>>
    /\ results = <<>>
    /\ calls = <<>>
    /\ arg = <<>>
    /\ res = <<>>

Next ==
    \/ connect
    \/ tcpConnected
    \/ tcpError
    \/ connectTimeout
    \/ sleepDone
    \/ data
    \/ socketError
    \/ socketClose
    \/ disconnect
    \/ command
    \/ continue
    \/ waitForStop
    \/ step
    \/ pause
    \/ timeout

Spec == Init /\ [][Next]_vars

\* ---------------------------------------------- reconnect specification

\* A client object between two sessions: the first ended with disconnect()
\* and the 'close' of its socket, with or without no-ack mode negotiated,
\* the target stopped or running; connect() has not been called again yet.
\* Requests are numbered from the second session on.
ReconnectInit ==
    /\ socket = "null"
    /\ handlers = FALSE
    /\ closeDue = FALSE
    /\ pendingData = <<>>
    /\ noAckMode \in BOOLEAN
    /\ packetResolvers = <<>>
    /\ _isRunning \in BOOLEAN
    /\ pendingStopReply = NULL
    /\ timers = {}
    /\ nextId = 1
    /\ connPc = "idle"
    /\ useAck = FALSE
    /\ op = <<"new">>
    /\ ret = NULL
    /\ done = {}
    /\ twice = {}
    /\ expired = {}
    /\ clean = TRUE
    /\ nDelivered = 0
    /\ stream = <<>>
    /\ fed = <<>>
    /\ start = <<>>
    /\ results = <<>>
    /\ calls = <<>>
    /\ arg = <<>>
    /\ res = <<>>

SpecReconnect == ReconnectInit /\ [][Next]_vars

\* ------------------------------------------------- timers specification

\* A client after a handshake of two requests with no request pending, its
\* socket open, destroyed, or null after disconnect().
TimersInit ==
    /\ socket \in {"open", "destroyed", "null"}
    /\ handlers = (socket = "open")
    /\ closeDue = FALSE
    /\ pendingData = <<>>
    /\ noAckMode = FALSE
    /\ packetResolvers = <<>>
    /\ _isRunning = FALSE
    /\ pendingStopReply = NULL
    /\ timers = {}
    /\ nextId = 3
    /\ connPc = "ready"
    /\ useAck = TRUE
    /\ op = <<"new">>
    /\ ret = NULL
    /\ done = 1..2
    /\ twice = {}
    /\ expired = {}
    /\ clean = TRUE
    /\ nDelivered = 2
    /\ stream = <<>>
    /\ fed = <<>>
    /\ start = <<>>
    /\ results = <<>>
    /\ calls = <<>>
    /\ arg = <<>>
    /\ res = <<>>

TimersNext ==
    \/ command
    \/ continue
    \/ waitForStop
    \/ step
    \/ pause
    \/ data
    \/ socketError
    \/ socketClose
    \/ disconnect
    \/ timeout

\* What every timeout step does to op and timers, and no other step does:
\* one armed timer is gone, and at most the request a caller issued in
\* reaction is new.
timerFires ==
    /\ timers # {}
    /\ op' = <<"timeout">>
    /\ \E id \in timers, new \in SUBSET {nextId} : timers' = (timers \ {id}) \cup new

\* Timers fire: an armed setTimeout callback runs unless it is cleared.
SpecTimers == TimersInit /\ [][TimersNext]_vars /\ WF_<<op, timers>>(timerFires)

\* ------------------------------------------------ framing specification
\* One byte stream, received in every possible division into 'data' events.

\* What the target may put on the wire: good and bad packets, ack and nack
\* bytes, noise, a packet start without an end.
Pieces ==
    { framePacket(OK),
      framePacket(S05),
      framePacket(O4b),
      framePacket(<<"$">>),
      <<"$", "S", "0", "5", "#", "b", "9">>,
      <<"+">>, <<"-">>, <<"x">>, <<"$">>, <<"#">> }

RECURSIVE StreamsOf(_)
StreamsOf(n) ==
    IF n = 0 THEN {<<>>}
    ELSE StreamsOf(n - 1) \cup {s \o p : s \in StreamsOf(n - 1), p \in Pieces}

\* A connected client after the handshake (requests 1 to 3), with none or
\* two requests pending, in ack or no-ack mode, the target running.
FramingInit ==
    /\ socket = "open"
    /\ handlers = TRUE
    /\ closeDue = FALSE
    /\ pendingData = <<>>
    /\ noAckMode \in BOOLEAN
    /\ packetResolvers \in {<<>>, <<[id |-> 4, op |-> "command"], [id |-> 5, op |-> "waitForStop"]>>}
    /\ _isRunning = TRUE
    /\ pendingStopReply = NULL
    /\ timers = {packetResolvers[i].id : i \in 1..Len(packetResolvers)}
    /\ nextId = 4 + Len(packetResolvers)
    /\ connPc = "ready"
    /\ useAck = FALSE
    /\ op = <<"new">>
    /\ ret = NULL
    /\ done = 1..3
    /\ twice = {}
    /\ expired = {}
    /\ clean = TRUE
    /\ nDelivered = 3
    /\ stream \in StreamsOf(MaxPieces)
    /\ fed = <<>>
    /\ calls = <<>>
    /\ arg = <<>>
    /\ res = <<>>
    /\ start = This
    /\ results = [wrote |-> <<>>, packets |-> <<>>, settled |-> <<>>, bytewise |-> TRUE]

\* A 'data' event with the next n bytes of the stream.
feed ==
    /\ \E n \in 1..Len(stream) :
         LET chunk == SubSeq(stream, 1, n)
             r == onData(This, chunk)
         IN /\ Commit(r, <<"data">>)
            /\ stream' = SubSeq(stream, n + 1, Len(stream))
            /\ fed' = fed \o chunk
            /\ results' = [wrote |-> results.wrote \o r.wrote,
                           packets |-> results.packets \o r.packets,
                           settled |-> results.settled \o r.settled,
                           bytewise |-> (results.bytewise /\ n = 1)]
    /\ UNCHANGED start

FramingNext == feed

SpecFraming == FramingInit /\ [][FramingNext]_vars

\* ---------------------------------------------- handshake specification
\* connect() with WINUAE_FORCE_BREAK unset against a target that answers
\* every command, in order, and emits one stop reply for the interrupt
\* byte at a time of its choosing. stream holds the bytes the target has
\* sent and the client has not received yet, fed the bytes received.

HandshakeInit ==
    /\ socket = "null"
    /\ handlers = FALSE
    /\ closeDue = FALSE
    /\ pendingData = <<>>
    /\ noAckMode = FALSE
    /\ packetResolvers = <<>>
    /\ _isRunning = FALSE
    /\ pendingStopReply = NULL
    /\ timers = {}
    /\ nextId = 1
    /\ connPc = "idle"
    /\ useAck \in BOOLEAN
    /\ op = <<"new">>
    /\ ret = NULL
    /\ done = {}
    /\ twice = {}
    /\ expired = {}
    /\ clean = TRUE
    /\ nDelivered = 0
    /\ stream = <<>>
    /\ fed = <<>>
    /\ start = <<>>
    /\ results = [wrote |-> <<>>, packets |-> <<>>, settled |-> <<>>, bytewise |-> TRUE]
    /\ calls = <<>>
    /\ arg = <<>>
    /\ res = <<>>

\* The TCP connection is made; the interrupt byte is written.
tcpConnectedBreak ==
    /\ connPc = "tcp"
    /\ socket = "connecting"
    /\ Commit(onConnected(This, TRUE), <<"tcpConnected">>)
    /\ UNCHANGED framingVars

\* The commands connect() has written so far, in order.
handshakeSent ==
    LET all == IF useAck THEN <<"qSupported", "?">>
               ELSE <<"qSupported", "QStartNoAckMode", "?">>
    IN CASE connPc = "qSupported" -> SubSeq(all, 1, 1)
         [] connPc = "QStartNoAckMode" -> SubSeq(all, 1, 2)
         [] connPc \in {"?", "ready"} -> all
         [] OTHER -> <<>>

\* What the target answers a handshake command with: its features (a word
\* that is no stop reply, no console output and not OK), OK, the halt
\* reason.
replyTo(cmd) ==
    CASE cmd = "qSupported" -> <<"x">>
      [] cmd = "QStartNoAckMode" -> OK
      [] cmd = "?" -> S05

count(str, c) == Cardinality({k \in 1..Len(str) : str[k] = c})

\* The packets the target has sent: all of them, and the stop replies for
\* the interrupt byte among them (T05; the halt reason is S05).
targetSent == count(fed \o stream, "$")

targetStopped == count(fed \o stream, "T")

\* The target answers the oldest command it has not answered.
targetReplies ==
    /\ targetSent - targetStopped < Len(handshakeSent)
    /\ stream' = stream \o framePacket(replyTo(handshakeSent[targetSent - targetStopped + 1]))
    /\ UNCHANGED <<protocolVarsButStream, fed, start, results, arg, res>>

\* The target reports the stop caused by the interrupt byte.
targetStops ==
    /\ connPc \in {"sleep", "qSupported", "QStartNoAckMode", "?", "ready"}
    /\ targetStopped = 0
    /\ stream' = stream \o framePacket(T05)
    /\ UNCHANGED <<protocolVarsButStream, fed, start, results, arg, res>>

HandshakeNext ==
    \/ connect
    \/ tcpConnectedBreak
    \/ sleepDone
    \/ targetReplies
    \/ targetStops
    \/ feed

SpecHandshake == HandshakeInit /\ [][HandshakeNext]_vars

\* ------------------------------------------------- function specifications

\* A connected client after the handshake, acks on, one request pending.
Connected ==
    /\ socket = "open"
    /\ handlers = TRUE
    /\ closeDue = FALSE
    /\ pendingData = <<>>
    /\ noAckMode = FALSE
    /\ packetResolvers = <<[id |-> 4, op |-> "command"]>>
    /\ _isRunning = FALSE
    /\ pendingStopReply = NULL
    /\ timers = {4}
    /\ nextId = 5
    /\ connPc = "ready"
    /\ useAck = TRUE
    /\ op = <<"new">>
    /\ ret = NULL
    /\ done = 1..3
    /\ twice = {}
    /\ expired = {}
    /\ clean = TRUE
    /\ nDelivered = 3
    /\ stream = <<>>
    /\ fed = <<>>
    /\ start = <<>>
    /\ results = <<>>
    /\ calls = <<>>

RECURSIVE SeqsOf(_, _)
\* The sequences over S of length n or less.
SeqsOf(S, n) ==
    IF n = 0 THEN {<<>>}
    ELSE SeqsOf(S, n - 1) \cup {Append(s, x) : s \in SeqsOf(S, n - 1), x \in S}

\* b ^ 0x20, for a byte b.
xor0x20(b) == IF (b \div 32) % 2 = 1 THEN b - 32 ELSE b + 32

RECURSIVE escapeOnlyFraming(_)
\* Variant of escapeXPacketData that leaves 0x7d alone.
escapeOnlyFraming(bytes) ==
    IF bytes = <<>> THEN <<>>
    ELSE (IF Head(bytes) \in {35, 36}
          THEN <<125, xor0x20(Head(bytes))>>
          ELSE <<Head(bytes)>>) \o escapeOnlyFraming(Tail(bytes))

RECURSIVE escapeNoMask(_)
\* Variant of escapeXPacketData that prefixes 0x7d and leaves the byte as
\* it is.
escapeNoMask(bytes) ==
    IF bytes = <<>> THEN <<>>
    ELSE (IF Head(bytes) = 125 \/ Head(bytes) = 35 \/ Head(bytes) = 36
          THEN <<125, Head(bytes)>>
          ELSE <<Head(bytes)>>) \o escapeNoMask(Tail(bytes))

RECURSIVE escapeXPacketData(_)
\* 0x7d, 0x23 and 0x24 become 0x7d, b ^ 0x20; every other byte is pushed as
\* it is.
escapeXPacketData(bytes) ==
    IF bytes = <<>> THEN <<>>
    ELSE (IF Head(bytes) = 125 \/ Head(bytes) = 35 \/ Head(bytes) = 36
          THEN <<125, xor0x20(Head(bytes))>>
          ELSE <<Head(bytes)>>) \o escapeXPacketData(Tail(bytes))

\* Bytes of a chunk: the three that are escaped, what they are escaped to,
\* and others.
Bytes == {35, 36, 125, 3, 4, 93, 0, 65, 255}

EscapeInit ==
    /\ Connected
    /\ arg \in SeqsOf(Bytes, MaxBuf)
    /\ res = <<>>

\* GdbProtocol.escapeXPacketData(chunk)
escape ==
    /\ res = <<>>
    /\ res' = <<escapeXPacketData(arg)>>
    /\ UNCHANGED <<protocolVars, arg>>

EscapeNext == escape

SpecEscape == EscapeInit /\ [][EscapeNext]_vars

\* Characters of a payload: letters, digits, and the two framing characters.
PayloadChars == {"O", "K", "S", "0", "5", "x", "#", "$"}

ChecksumInit ==
    /\ Connected
    /\ arg \in SeqsOf(PayloadChars, MaxPayload)
    /\ res = <<>>

\* sendPacket(data): the packet it hands to socketWrite.
send ==
    /\ res = <<>>
    /\ res' = <<framePacket(arg)>>
    /\ UNCHANGED <<protocolVars, arg>>

\* One payload character of the packet is changed on the way.
corrupt ==
    /\ Len(res) = 1
    /\ res[1] = framePacket(arg)
    /\ op = <<"new">>
    /\ \E k \in 2..(Len(arg) + 1), c \in PayloadChars :
         /\ c # res[1][k]
         /\ res' = <<[res[1] EXCEPT ![k] = c]>>
    /\ UNCHANGED <<protocolVars, arg>>

\* The packet arrives in one 'data' event.
receive ==
    /\ Len(res) = 1
    /\ op = <<"new">>
    /\ Commit(onData(This, res[1]), <<"data">>)
    /\ UNCHANGED framingVars

ChecksumNext ==
    \/ send
    \/ corrupt
    \/ receive

SpecChecksum == ChecksumInit /\ [][ChecksumNext]_vars

\* ------------------------------------------------------------------ claims

\* The words of the claims, stated apart from the code's own tests.
HexChars == {"0", "1", "2", "3", "4", "5", "6", "7", "8", "9",
             "a", "b", "c", "d", "e", "f", "A", "B", "C", "D", "E", "F"}

StopShape(p) == Len(p) >= 1 /\ (p[1] = "S" \/ p[1] = "T")

ConsoleShape(p) == Len(p) >= 2 /\ p[1] = "O" /\ \A i \in 2..Len(p) : p[i] \in HexChars

queueIds == {packetResolvers[i].id : i \in 1..Len(packetResolvers)}

resolvedWith(r, p) == [id |-> r.id, op |-> r.op, how |-> "resolve", val |-> p]

rejectedWith(r, message) == [id |-> r.id, op |-> r.op, how |-> "reject", val |-> <<message>>]

\* C1: while no request has timed out and the connection was not lost, the
\* k-th packet delivered to a resolver resolves the k-th registered request:
\* the settled requests are 1..k, the queue holds the later ones in issue
\* order, every data event resolves the next ids in order, and two replies in
\* one event go to the two oldest requests, first payload first.
FifoOrder ==
    clean =>
      /\ done = 1..nDelivered
      /\ Len(packetResolvers) = nextId - 1 - nDelivered
      /\ \A i \in 1..Len(packetResolvers) : packetResolvers[i].id = nDelivered + i
      /\ dataEnabled =>
           \A chunk \in Chunks :
             LET r == handleData(This, chunk)
             IN /\ \A j \in 1..Len(r.settled) :
                     /\ r.settled[j].id = nDelivered + j
                     /\ r.settled[j].how = "resolve"
                /\ (pendingData = <<>> /\ Len(packetResolvers) >= 2
                      /\ chunk = framePacket(OK) \o framePacket(S05))
                     => r.settled = <<resolvedWith(packetResolvers[1], OK),
                                      resolvedWith(packetResolvers[2], S05)>>

\* C1 witness: two commands were issued without awaiting and one data event
\* carried both replies, delivered to request 1 and request 2.
FifoOrderWitness ==
    /\ clean
    /\ Len(op) = 3
    /\ op[1] = "data"
    /\ op[2] = <<"reply", 1, "command", OK>>
    /\ op[3] = <<"reply", 2, "command", S05>>

\* C2: a stop reply that arrives while nothing is pending, also right after
\* continue(), fills the async-stop slot; with the slot filled, waitForStop
\* returns its value, writes nothing and empties it, and the waitForStop
\* after that returns nothing: it registers a pending request, still
\* without a write.
AsyncStopCapture ==
    /\ (dataEnabled /\ packetResolvers = <<>> /\ pendingData = <<>>) =>
         \A p \in {S05, T05} :
           /\ onData(This, framePacket(p)).pendingStopReply = p
           /\ onData(continueOn(This), framePacket(p)).pendingStopReply = p
           /\ onData(continueOn(This), framePacket(p)).settled = <<>>
    /\ Truthy(pendingStopReply) =>
         LET first == waitForStopOn(This)
             second == waitForStopOn(first)
         IN /\ first.ret = pendingStopReply
            /\ first.wrote = <<>>
            /\ first.pendingStopReply = NULL
            /\ first.packetResolvers = packetResolvers
            /\ second.wrote = <<>>
            /\ second.pendingStopReply = NULL
            /\ second.packetResolvers =
                 Append(packetResolvers, [id |-> nextId, op |-> "waitForStop"])
            /\ nextId \in second.timers

\* C2 witness: continue, an unsolicited S05, then a waitForStop that returned
\* S05 at once and left the slot empty.
AsyncStopCaptureWitness ==
    /\ op = <<"waitForStop">>
    /\ ret = S05
    /\ pendingStopReply = NULL
    /\ packetResolvers = <<>>
    /\ socket = "open"

\* C3: a console-output packet (O and one or more hex digits) is delivered
\* to no resolver and leaves the queue, the timers, the async-stop slot and
\* the running flag as they were; the non-O packet after it resolves the
\* oldest pending request; a payload OK is never classed as console output.
ConsoleNonInterference ==
    dataEnabled =>
      /\ \A chunk \in Chunks :
           LET r == handleData(This, chunk)
           IN /\ \A i \in 1..Len(r.settled) : ~ConsoleShape(r.settled[i].val)
              /\ \A i \in 1..Len(r.packets) :
                   /\ r.packets[i].data = OK => r.packets[i].class # "console"
                   /\ (ConsoleShape(r.packets[i].data) /\ r.packets[i].class # "mismatch")
                        => (r.packets[i].class = "console" /\ r.packets[i].to = 0)
      /\ pendingData = <<>> =>
           LET r == onData(This, framePacket(O4b))
           IN /\ r.packetResolvers = packetResolvers
              /\ r.timers = timers
              /\ r.pendingStopReply = pendingStopReply
              /\ r.isRunning = _isRunning
              /\ r.settled = <<>>
      /\ (pendingData = <<>> /\ packetResolvers # <<>>) =>
           \A p \in {OK, S05} :
             handleData(handleData(This, framePacket(O4b)), framePacket(p)).settled
               = <<resolvedWith(Head(packetResolvers), p)>>

\* C3 witness: a console packet arrived while a request was pending, and
\* the request is still pending.
ConsoleNonInterferenceWitness ==
    /\ op = <<"data", <<"console", 0, "none", O4b>>>>
    /\ packetResolvers # <<>>
    /\ Head(packetResolvers).op = "command"

\* frame occurs in bytes from position i on, contiguously.
occursAt(frame, bytes, i) ==
    /\ i + Len(frame) - 1 <= Len(bytes)
    /\ SubSeq(bytes, i, i + Len(frame) - 1) = frame

RECURSIVE framesIn(_, _, _)
\* The packets, as $payload#xx with both digits, lie in bytes one after the
\* other from position i on.
framesIn(pkts, bytes, i) ==
    \/ pkts = <<>>
    \/ LET frame == <<"$">> \o Head(pkts).data \o <<"#">> \o Head(pkts).checksum
       IN /\ Len(Head(pkts).checksum) = 2
          /\ \E j \in i..Len(bytes) :
               /\ occursAt(frame, bytes, j)
               /\ framesIn(Tail(pkts), bytes, j + Len(frame))

digitValue(c) ==
    CASE c \in {"0", "1", "2", "3", "4", "5", "6", "7", "8", "9"} -> charCodeAt(c) - 48
      [] c \in {"a", "b", "c", "d", "e", "f"} -> charCodeAt(c) - 87
      [] c \in {"A", "B", "C", "D", "E", "F"} -> charCodeAt(c) - 55

\* The checksum field is two hex digits that are not the sum of the payload
\* bytes mod 256.
WrongDigits(payload, checksum) ==
    /\ Len(checksum) = 2
    /\ checksum[1] \in HexChars
    /\ checksum[2] \in HexChars
    /\ 16 * digitValue(checksum[1]) + digitValue(checksum[2]) # sumCodes(payload) % 256

\* Frames with such a checksum field.
BadFrames ==
    { <<"$">> \o x[1] \o <<"#">> \o x[2] :
        x \in { y \in {OK, S05, T05, O4b, <<>>}
                      \X {<<"b", "9">>, <<"0", "0">>, <<"9", "B">>, <<"f", "f">>} :
                WrongDigits(y[1], y[2]) } }

\* C5: a complete packet whose two checksum digits are not the sum of its
\* payload bytes mod 256 is not delivered: no request is resolved, the slot,
\* the running flag, the queue and the timers stay, and the only write is
\* the nack '-' in ack mode, nothing in no-ack mode.
ChecksumMismatchDropped ==
    dataEnabled =>
      /\ \A chunk \in Chunks :
           LET r == handleData(This, chunk)
           IN \A i \in 1..Len(r.packets) :
                WrongDigits(r.packets[i].data, r.packets[i].checksum)
                  => (r.packets[i].class = "mismatch" /\ r.packets[i].to = 0)
      /\ pendingData = <<>> =>
           \A frame \in BadFrames :
             LET r == onData(This, frame)
             IN /\ r.settled = <<>>
                /\ r.packetResolvers = packetResolvers
                /\ r.timers = timers
                /\ r.pendingStopReply = pendingStopReply
                /\ r.isRunning = _isRunning
                /\ r.pendingData = <<>>
                /\ r.wrote = IF noAckMode THEN <<>> ELSE <<raw("-")>>

\* C5 witness: a stop reply with a wrong checksum arrived while the target
\* was running and nothing was pending; the slot is still empty.
ChecksumMismatchDroppedWitness ==
    /\ op = <<"data", <<"mismatch", 0, "none", S05>>>>
    /\ _isRunning
    /\ pendingStopReply = NULL
    /\ packetResolvers = <<>>

\* C6: socket 'error', socket 'close' and disconnect() reject every pending
\* request, in queue order, with their connection-lost error, clear its timer
\* and leave the queue empty; no promise is ever settled twice, and no timer
\* is armed for a request that is not pending.
ConnectionLostRejectsAll ==
    /\ twice = {}
    /\ timers \subseteq queueIds
    /\ queueIds \cap done = {}
    /\ \A x \in {<<"Socket error", dataEnabled>>, <<"Socket closed", closeEnabled>>,
                 <<"Disconnected", TRUE>>} :
         x[2] =>
           LET r == CASE x[1] = "Socket error" -> onError(This)
                      [] x[1] = "Socket closed" -> onClose(This)
                      [] OTHER -> disconnectOn(This)
           IN /\ r.settled = [i \in 1..Len(packetResolvers) |->
                                rejectedWith(packetResolvers[i], x[1])]
              /\ r.timers \cap queueIds = {}
              /\ \A i \in 1..Len(r.packetResolvers) : r.packetResolvers[i].id >= nextId
              /\ rejectAll(This, Error(x[1])).packetResolvers = <<>>

\* C6 witness: a socket error with requests pending: they are settled, none
\* by a timer, and the queue is empty.
ConnectionLostRejectsAllWitness ==
    /\ op = <<"error">>
    /\ ~clean
    /\ expired = {}
    /\ Cardinality(done) >= 2
    /\ packetResolvers = <<>>

\* C7: the timer of a request removes that request's entry wherever it is,
\* rejects it with a timeout error and nothing else: the socket is as it was
\* and the other entries stay queued in their order.
TimeoutRemovesOnlyItsEntry ==
    \A id \in timers :
      LET r == expire(This, id)
          after == onTimeout(This, id)
          others == SelectSeq(packetResolvers, LAMBDA e : e.id # id)
      IN /\ Len(others) = Len(packetResolvers) - 1
         /\ r.packetResolvers = others
         /\ r.timers = timers \ {id}
         /\ \E i \in 1..Len(packetResolvers) :
              /\ packetResolvers[i].id = id
              /\ r.settled = <<rejectedWith(packetResolvers[i], "timeout")>>
         /\ after.socket = socket
         /\ after.handlers = handlers
         /\ after.closeDue = closeDue
         /\ SelectSeq(after.packetResolvers, LAMBDA e : e.id < nextId) = others

\* C7 witness: the request that timed out sat between two others, which
\* are still queued, on an open socket.
TimeoutRemovesOnlyItsEntryWitness ==
    /\ op = <<"timeout">>
    /\ socket = "open"
    /\ Len(packetResolvers) >= 2
    /\ \E e \in expired : packetResolvers[1].id < e /\ e < packetResolvers[2].id

\* C8: also after a request has timed out, a valid packet that is not
\* console output and arrives while the queue is not empty is handed to the
\* request at the head of the queue, whatever command that is: no guard
\* discards it.
StaleReplyMisdelivered ==
    (expired # {} /\ dataEnabled /\ pendingData = <<>> /\ packetResolvers # <<>>) =>
      \A p \in {OK, S05, T05} :
        LET r == handleData(This, framePacket(p))
        IN /\ r.settled = <<resolvedWith(Head(packetResolvers), p)>>
           /\ r.packetResolvers = Tail(packetResolvers)

\* C8 witness: a request timed out and a reply that came later resolved a
\* request registered after it.
StaleReplyMisdeliveredWitness ==
    /\ Len(op) = 2
    /\ op[1] = "data"
    /\ op[2][1] = "reply"
    /\ op[2][3] = "command"
    /\ \E e \in expired : e < op[2][2]

\* C9: a request registered by waitForStop is resolved only with a stop
\* reply (a payload that starts with S or T).
WaitForStopOnlyStopReply ==
    \A i \in 2..Len(op) :
      (op[1] = "data" /\ op[i][1] = "reply" /\ op[i][3] = "waitForStop") => StopShape(op[i][4])

\* C10: pause() with the slot filled returns the slot's value and empties
\* it; with the slot empty and the running flag false it returns S00; in
\* both cases it writes nothing and registers nothing.
PauseShortCircuit ==
    LET r == pauseOn(This)
    IN /\ Truthy(pendingStopReply) =>
             /\ r.ret = pendingStopReply
             /\ r.pendingStopReply = NULL
       /\ (~Truthy(pendingStopReply) /\ ~_isRunning) =>
             /\ r.ret = <<"S", "0", "0">>
             /\ r.pendingStopReply = pendingStopReply
       /\ (Truthy(pendingStopReply) \/ ~_isRunning) =>
             /\ r.wrote = <<>>
             /\ r.packetResolvers = packetResolvers
             /\ r.timers = timers
             /\ r.nextId = nextId
             /\ r.isRunning = _isRunning

\* C10 witness: pause() returned the stop reply that was in the slot.
PauseShortCircuitWitness ==
    /\ op = <<"pause">>
    /\ ret = S05
    /\ pendingStopReply = NULL
    /\ socket = "open"

\* C11: after continue(), a pause() that resolves returns a stop reply (a
\* payload that starts with S or T) and the running flag is false: whatever
\* the next data event carries, if it resolves the request of that pause(),
\* it does so with a stop reply and leaves isRunning false.
PauseReportsStopped ==
    dataEnabled =>
      \A chunk \in Chunks :
        LET paused == pauseOn(continueOn(This))
            r == onData(paused, chunk)
        IN \A j \in 1..Len(r.settled) :
             (r.settled[j].id = nextId /\ r.settled[j].how = "resolve") =>
               /\ StopShape(r.settled[j].val)
               /\ ~r.isRunning

\* A stop reply was observed by operation r: delivered to a pending request,
\* captured into the async-stop slot, or taken from the slot by the caller.
stopObserved(r) ==
    \/ \E i \in 1..Len(r.packets) :
         r.packets[i].class \in {"reply", "async"} /\ StopShape(r.packets[i].data)
    \/ (r.ret # NULL /\ StopShape(r.ret))

stepResolved(r) ==
    \E j \in 1..Len(r.settled) : r.settled[j].op = "step" /\ r.settled[j].how = "resolve"

\* The flag does not go from true to false in operation r, or for reason why(r).
clearsOnlyWhen(r, why(_)) == (_isRunning /\ ~r.isRunning) => why(r)

everyOperation(why(_)) ==
    /\ continueOn(This).isRunning
    /\ stepOn(This).isRunning
    /\ dataEnabled => \A chunk \in Chunks : clearsOnlyWhen(onData(This, chunk), why)
    /\ \A id \in timers : clearsOnlyWhen(onTimeout(This, id), why)
    /\ clearsOnlyWhen(waitForStopOn(This), why)
    /\ clearsOnlyWhen(pauseOn(This), why)
    /\ clearsOnlyWhen(onError(This), why)
    /\ clearsOnlyWhen(onClose(This), why)
    /\ clearsOnlyWhen(disconnectOn(This), why)
    /\ \A forceBreak \in BOOLEAN : clearsOnlyWhen(onConnected(This, forceBreak), why)

ContinueFireAndForget ==
    LET r == continueOn(This)
    IN /\ r.pendingStopReply = NULL
       /\ r.isRunning
       /\ r.wrote = IF socket \in {"open", "connecting"}
                    THEN <<[kind |-> "packet", data |-> "vCont;c"]>>
                    ELSE <<>>
       /\ r.packetResolvers = packetResolvers
       /\ r.timers = timers
       /\ r.nextId = nextId
       /\ r.settled = <<>>
       /\ r.ret = NULL
       /\ r.pendingData = pendingData
       /\ r.socket = socket

\* C13 witness: continue() was called while a request was pending, which
\* is still the only one in the queue.
ContinueFireAndForgetWitness ==
    /\ op = <<"continue">>
    /\ socket = "open"
    /\ _isRunning
    /\ pendingStopReply = NULL
    /\ Len(packetResolvers) = 1
    /\ connPc = "ready"

\* C14: step() sets the running flag, registers one pending request at the
\* tail of the queue, writes vCont;s and returns nothing yet; a step request
\* in the queue is unsettled with its timer armed; a call that returns at
\* once settles nothing; and after a data event that resolves a step
\* request, whatever the reply, the running flag is false.
StepAwaitsReply ==
    /\ LET r == stepOn(This)
       IN /\ r.isRunning
          /\ r.packetResolvers = Append(packetResolvers, [id |-> nextId, op |-> "step"])
          /\ r.timers = timers \cup {nextId}
          /\ r.wrote = IF socket \in {"open", "connecting"}
                       THEN <<[kind |-> "packet", data |-> "vCont;s"]>>
                       ELSE <<>>
          /\ r.ret = NULL
          /\ r.settled = <<>>
    /\ \A i \in 1..Len(packetResolvers) :
         packetResolvers[i].op = "step" =>
           /\ packetResolvers[i].id \notin done
           /\ packetResolvers[i].id \in timers
    /\ continueOn(This).settled = <<>>
    /\ waitForStopOn(This).settled = <<>>
    /\ pauseOn(This).settled = <<>>
    /\ dataEnabled =>
         \A chunk \in Chunks :
           LET r == onData(This, chunk)
           IN \A j \in 1..Len(r.settled) :
                r.settled[j].op = "step" =>
                  /\ r.settled[j].how = "resolve"
                  /\ r.settled[j].id \in queueIds
                  /\ ~r.isRunning

\* C14 witness: after the handshake a step() was resolved by a reply that
\* is no stop reply, and the running flag is false.
StepAwaitsReplyWitness ==
    /\ connPc = "ready"
    /\ socket = "open"
    /\ Len(op) = 2
    /\ op[1] = "data"
    /\ op[2][1] = "reply"
    /\ op[2][3] = "step"
    /\ ~StopShape(op[2][4])
    /\ ~_isRunning
    /\ packetResolvers = <<>>

\* C15: at most one run-style request (of step, waitForStop or pause) is in
\* the pending queue at any time, whatever calls are made.
AtMostOneRunRequest ==
    Cardinality({i \in 1..Len(packetResolvers) :
                   packetResolvers[i].op \in {"step", "waitForStop", "pause"}}) <= 1

\* The calls of writeMemory among the calls followed.
writes == {i \in 1..Len(calls) : calls[i].name = "writeMemory"}

\* The M commands a call has issued, in order: one per chunk.
chunksOf(c) == SelectSeq(c.issued, LAMBDA x : x.type = "M")

RECURSIVE sumLen(_)
sumLen(cmds) == IF cmds = <<>> THEN 0 ELSE Head(cmds).len + sumLen(Tail(cmds))

\* A call that has resolved or rejected issues nothing more and changes no more.
finishedCallsStay ==
    [][\A i \in 1..Len(calls) : calls[i].state # "pending" => calls'[i] = calls[i]]_vars

\* C16: the i-th chunk write of writeMemory(addr, data), counted from 0,
\* is at address addr + 256*i with length min(256, N - 256*i), so the
\* addresses increase strictly; when the call resolves it has issued
\* ceil(N/256) chunk writes whose lengths sum to N; when it rejects, the
\* command it issued last is the one that failed and nothing is issued
\* afterwards.
ChunkedWriteOrder ==
    /\ [](\A w \in writes :
           LET c == calls[w]
               ms == chunksOf(c)
           IN /\ \A k \in 1..Len(ms) :
                   /\ ms[k].addr = c.addr + 256 * (k - 1)
                   /\ ms[k].len = IF c.len - 256 * (k - 1) < 256
                                   THEN c.len - 256 * (k - 1) ELSE 256
                   /\ ms[k].len >= 1
                   /\ \A j \in 1..(k - 1) : ms[j].addr < ms[k].addr
              /\ c.state = "resolved" =>
                   /\ Len(ms) = (c.len + 255) \div 256
                   /\ sumLen(ms) = c.len
              /\ c.state = "rejected" =>
                   /\ c.issued # <<>>
                   /\ c.issued[Len(c.issued)].id = c.req
                   /\ \/ c.issued[Len(c.issued)].how = "reject"
                      \/ /\ c.issued[Len(c.issued)].how = "resolve"
                         /\ c.issued[Len(c.issued)].val # OK)
    /\ finishedCallsStay

\* C16 witness: a write of 300 bytes at 0x2000 resolved after two chunk
\* writes, 256 bytes at 0x2000 and 44 bytes at 0x2100.
ChunkedWriteOrderWitness ==
    \E w \in writes :
      /\ calls[w].len = 300
      /\ calls[w].addr = 8192
      /\ calls[w].state = "resolved"
      /\ Len(calls[w].issued) = 2
      /\ calls[w].issued[1].addr = 8192 /\ calls[w].issued[1].len = 256
      /\ calls[w].issued[2].addr = 8448 /\ calls[w].issued[2].len = 44

\* A command of writeMemory failed: its request was rejected (timeout,
\* connection lost) or it was answered with an error reply (E..).
commandFailed(x) ==
    \/ x.how = "reject"
    \/ (x.how = "resolve" /\ Len(x.val) >= 1 /\ x.val[1] = "E")

\* C17: each chunk is sent with M first; when the M command fails, by
\* timeout or by an error reply, the same chunk (same address and length)
\* is sent again with X, and only then may the write be reported as failed.
XFallbackOnAnyFailure ==
    \A w \in writes :
      LET c == calls[w]
      IN \A n \in 1..Len(c.issued) :
           /\ c.issued[n].type = "X" =>
                /\ n > 1
                /\ c.issued[n - 1].type = "M"
                /\ c.issued[n - 1].addr = c.issued[n].addr
                /\ c.issued[n - 1].len = c.issued[n].len
           /\ (c.issued[n].type = "M" /\ commandFailed(c.issued[n])) =>
                /\ n < Len(c.issued)
                /\ c.issued[n + 1].type = "X"
                /\ c.issued[n + 1].addr = c.issued[n].addr
                /\ c.issued[n + 1].len = c.issued[n].len

\* C18: a command of writeMemory is issued only when every earlier command
\* of the call is settled, so at most one of them is in the pending queue;
\* and the M command of the next chunk is issued only after the command
\* before it, the M or the X of the previous chunk, was resolved with
\* exactly the reply OK.
ChunksNotPipelined ==
    \A w \in writes :
      LET c == calls[w]
          ids == {c.issued[n].id : n \in 1..Len(c.issued)}
      IN /\ Cardinality(queueIds \cap ids) <= 1
         /\ \A n \in 1..Len(c.issued) :
              /\ n < Len(c.issued) =>
                   /\ c.issued[n].how # "pending"
                   /\ c.issued[n].id \notin queueIds
              /\ (n > 1 /\ c.issued[n].type = "M") =>
                   /\ c.issued[n - 1].how = "resolve"
                   /\ c.issued[n - 1].val = OK
                   /\ c.issued[n - 1].addr < c.issued[n].addr

\* C18 witness: the M command of the first chunk timed out, its X command
\* was answered with OK, and the M command of the second chunk is the one
\* command of the call in the queue.
ChunksNotPipelinedWitness ==
    \E w \in writes :
      /\ Len(calls[w].issued) = 3
      /\ calls[w].issued[1].how = "reject"
      /\ calls[w].issued[2].type = "X"
      /\ calls[w].issued[2].val = OK
      /\ calls[w].issued[3].type = "M"
      /\ calls[w].issued[3].id \in queueIds
      /\ socket = "open"

\* C19: when a socket 'error' or 'close' event fails the pending requests,
\* the client does not retry: once the event and the reactions of the
\* rejected promises have run, nothing was written, no new request was
\* registered and the pending queue is empty.
NoRetryAfterTransportError ==
    /\ (socket = "open" /\ handlers) =>
         LET r == onError(This)
         IN /\ r.wrote = <<>>
            /\ r.nextId = nextId
            /\ r.packetResolvers = <<>>
    /\ closeEnabled =>
         LET r == onClose(This)
         IN /\ r.wrote = <<>>
            /\ r.nextId = nextId
            /\ r.packetResolvers = <<>>

\* The typed calls that are still waiting for their reply.
waitingCalls == {i \in 1..Len(calls) : calls[i].name \in OkCalls /\ calls[i].state = "pending"}

\* In operation r every request of a typed call that is settled ends the
\* call: resolved exactly when the reply is OK, else rejected with an error
\* that quotes the reply and satisfies named(call, error).
okOrError(r, named(_, _)) ==
    \A j \in 1..Len(r.settled) :
      LET e == r.settled[j]
      IN \A i \in waitingCalls :
           calls[i].req = e.id =>
             /\ r.calls[i].state = "resolved" <=> (e.how = "resolve" /\ e.val = OK)
             /\ r.calls[i].state # "pending"
             /\ (e.how = "resolve" /\ e.val # OK) =>
                  /\ r.calls[i].state = "rejected"
                  /\ r.calls[i].value.reply = e.val
                  /\ named(calls[i], r.calls[i].value)

everyEvent(named(_, _)) ==
    /\ \A i \in waitingCalls : calls[i].req \in queueIds
    /\ dataEnabled => \A chunk \in Replies : okOrError(onData(This, chunk), named)
    /\ \A id \in timers : okOrError(onTimeout(This, id), named)
    /\ okOrError(onError(This), named)
    /\ okOrError(onClose(This), named)
    /\ okOrError(disconnectOn(This), named)

\* C20 as stated: setBreakpoint, clearBreakpoint, setWatchpoint,
\* clearWatchpoint, writeRegister and writeRegisters resolve if and only if
\* the reply delivered to them is exactly OK; any other reply rejects the
\* call with an error naming the address or register.
OkOrErrorNamingKey == everyEvent(LAMBDA c, error : error.key = <<c.addr>>)

\* C20 amended: the six calls resolve if and only if the reply delivered to
\* them is exactly OK; any other reply rejects the call with an error that
\* quotes the reply and names the address (breakpoints, watchpoints) or the
\* register id (writeRegister); the error of writeRegisters names no
\* register.
OkOrError ==
    everyEvent(LAMBDA c, error :
                 IF c.name = "writeRegisters" THEN error.key = <<>> ELSE error.key = <<c.addr>>)

\* C20 witness: writeRegisters was answered with E01 and is rejected with
\* an error that quotes E01 and names no register, while a setBreakpoint
\* answered with OK has resolved.
OkOrErrorWitness ==
    /\ Len(calls) = 2
    /\ calls[1].name = "setBreakpoint"
    /\ calls[1].state = "resolved"
    /\ calls[2].name = "writeRegisters"
    /\ calls[2].state = "rejected"
    /\ calls[2].value = thrown("Register write-all failed", <<>>, E01)

\* The last event was a data event that delivered payload to the request
\* awaited by call i, made by caller.
answered(i, caller, payload) ==
    /\ Len(op) >= 2
    /\ op[1] = "data"
    /\ \E k \in 2..Len(op) : op[k] = <<"reply", calls[i].req, caller, payload>>

\* The number n is the big-endian value of the eight hex characters of field.
bigEndianOf(n, field) ==
    /\ ~n.nan
    /\ ~n.neg
    /\ Len(n.digits) <= 8
    /\ \A k \in 1..8 :
         digitValue(field[k]) = IF k <= 8 - Len(n.digits) THEN 0
                                ELSE n.digits[k - (8 - Len(n.digits))]

\* C21: readRegisters rejects with the reply-too-short error whenever the
\* reply has fewer than 144 characters and then returns no register;
\* otherwise it returns 18 registers, register i (D0-D7, A0-A7, SR, PC
\* from 0) being the big-endian value of the reply's characters 8i to 8i+8,
\* so that PC is characters 136 to 144.
ReadRegistersParse ==
    \A i \in 1..Len(calls) :
      \A payload \in RegisterReplies \cup DataReplies :
        (calls[i].name = "readRegisters" /\ answered(i, "readRegisters", payload)) =>
          IF Len(payload) < 144
          THEN /\ calls[i].state = "rejected"
               /\ calls[i].value = thrown("Register reply too short: ", <<Len(payload)>>, NULL)
               /\ calls[i].result = <<>>
          ELSE /\ calls[i].state = "resolved"
               /\ Len(calls[i].result) = 18
               /\ \A r \in 0..17 :
                    bigEndianOf(calls[i].result[r + 1], SubSeq(payload, 8 * r + 1, 8 * r + 8))
               /\ bigEndianOf(calls[i].result[18], SubSeq(payload, 137, 144))

\* C21 witness: readRegisters got 144 characters that end in 00c00276 and
\* returned PC = 0xc00276 and D0 = 0.
ReadRegistersParseWitness ==
    \E i \in 1..Len(calls) :
      /\ calls[i].name = "readRegisters"
      /\ calls[i].state = "resolved"
      /\ answered(i, "readRegisters", fieldsOf(18, 18, <<"0", "0", "c", "0", "0", "2", "7", "6">>))
      /\ calls[i].result[18].digits = <<12, 0, 0, 2, 7, 6>>
      /\ calls[i].result[1].digits = <<>>

\* An error reply of the protocol: the letter E followed by two digits.
ErrorShape(p) == Len(p) = 3 /\ p[1] = "E" /\ p[2] \in HexChars /\ p[3] \in HexChars

\* The bytes are what the hex digits of p encode, two digits a byte.
hexBytesOf(bytes, p) ==
    /\ Len(bytes) * 2 = Len(p)
    /\ \A k \in 1..Len(bytes) :
         bytes[k] = 16 * digitValue(p[2 * k - 1]) + digitValue(p[2 * k])

\* C22: readMemory rejects exactly when the reply is error-shaped (E
\* followed by digits); every other reply resolves the call, and a reply of
\* hex digits, two a byte, returns the bytes they encode.
ReadMemoryRejectsErrorShape ==
    \A i \in 1..Len(calls) :
      \A payload \in RegisterReplies \cup DataReplies :
        (calls[i].name = "readMemory" /\ answered(i, "readMemory", payload)) =>
          /\ calls[i].state = "rejected" <=> ErrorShape(payload)
          /\ calls[i].state = "resolved" <=> ~ErrorShape(payload)
          /\ (Len(payload) % 2 = 0 /\ \A k \in 1..Len(payload) : payload[k] \in HexChars) =>
               hexBytesOf(calls[i].result, payload)

\* C23: an E<code> reply to a read, write or monitor command (readMemory,
\* readRegister, writeMemory, writeRegister, sendMonitorCommand) makes the
\* call fail: the call is rejected and returns no value computed from the
\* error reply.
ErrorReplyIsFailure ==
    \A i \in 1..Len(calls) :
      \A payload \in {E01, <<"E", "1", "4">>} :
        (/\ calls[i].name \in {"readMemory", "readRegister", "writeMemory", "writeRegister",
                               "sendMonitorCommand"}
         /\ answered(i, calls[i].name, payload)) =>
          /\ calls[i].state = "rejected"
          /\ calls[i].result = <<>>

\* The requests of the handshake of connect() in a queue.
handshakeIn(resolvers) ==
    SelectSeq(resolvers, LAMBDA x : x.op \in {"qSupported", "QStartNoAckMode", "?"})

settledAs(r, caller, how) ==
    \E j \in 1..Len(r.settled) : r.settled[j].op = caller /\ r.settled[j].how = how

\* The commands operation r wrote, in order.
commandsOf(r) ==
    [k \in 1..Len(SelectSeq(r.wrote, LAMBDA w : w.kind = "packet")) |->
        SelectSeq(r.wrote, LAMBDA w : w.kind = "packet")[k].data]

\* P holds of every event that can settle a request, in the current state.
afterEveryEvent(P(_)) ==
    /\ dataEnabled => \A chunk \in Chunks : P(onData(This, chunk))
    /\ \A id \in timers : P(onTimeout(This, id))
    /\ (socket = "open" /\ handlers) => P(onError(This))
    /\ closeEnabled => P(onClose(This))
    /\ P(disconnectOn(This))

\* One move of the handshake: from the position of connect() in the current
\* state to its position after operation r.
handshakeMove(r) ==
    /\ connPc = "qSupported" =>
         \/ /\ r.connPc = "qSupported"
            /\ ~settledAs(r, "qSupported", "resolve") /\ ~settledAs(r, "qSupported", "reject")
            /\ r.nextId = nextId
         \/ /\ r.connPc = "QStartNoAckMode"
            /\ ~useAck
            /\ settledAs(r, "qSupported", "resolve")
            /\ r.packetResolvers[Len(r.packetResolvers)] = [id |-> nextId, op |-> "QStartNoAckMode"]
         \/ /\ r.connPc = "?"
            /\ useAck
            /\ settledAs(r, "qSupported", "resolve")
            /\ r.packetResolvers[Len(r.packetResolvers)] = [id |-> nextId, op |-> "?"]
         \/ /\ r.connPc = "failed"
            /\ settledAs(r, "qSupported", "reject")
            /\ r.nextId = nextId
    /\ connPc = "QStartNoAckMode" =>
         \/ /\ r.connPc = "QStartNoAckMode"
            /\ ~settledAs(r, "QStartNoAckMode", "resolve")
            /\ ~settledAs(r, "QStartNoAckMode", "reject")
            /\ r.nextId = nextId
         \/ /\ r.connPc = "?"
            /\ settledAs(r, "QStartNoAckMode", "resolve") \/ settledAs(r, "QStartNoAckMode", "reject")
            /\ r.packetResolvers[Len(r.packetResolvers)] = [id |-> nextId, op |-> "?"]
    /\ connPc = "?" =>
         \/ /\ r.connPc = "?"
            /\ ~settledAs(r, "?", "resolve") /\ ~settledAs(r, "?", "reject")
         \/ r.connPc = "ready" /\ settledAs(r, "?", "resolve")
         \/ r.connPc = "failed" /\ settledAs(r, "?", "reject")
    /\ connPc \in {"qSupported", "QStartNoAckMode", "?"} => r.nextId <= nextId + 1
    /\ connPc \notin {"qSupported", "QStartNoAckMode", "?"} =>
         /\ r.connPc = connPc
         /\ r.nextId = nextId

\* C24: connect() issues qSupported, then QStartNoAckMode unless
\* WINUAE_USE_ACK=1, then ?, one at a time: while the handshake runs exactly
\* one of its requests is pending, the one connect() awaits; the next
\* command is issued in the event that answers the one before it (or, for
\* QStartNoAckMode, fails it); connect() resolves in the event that resolves
\* ? and in no other; and it rejects when qSupported or ? is rejected.
HandshakeOrder ==
    /\ handshakeIn(packetResolvers) =
         IF connPc \in {"qSupported", "QStartNoAckMode", "?"}
         THEN <<[id |-> (CHOOSE i \in queueIds :
                           \E k \in 1..Len(packetResolvers) :
                             packetResolvers[k] = [id |-> i, op |-> connPc]),
                 op |-> connPc]>>
         ELSE <<>>
    /\ (connPc = "QStartNoAckMode") => ~useAck
    /\ afterEveryEvent(handshakeMove)
    /\ \A forceBreak \in BOOLEAN :
         connPc = "tcp" =>
           LET r == onConnected(This, forceBreak)
           IN IF forceBreak
              THEN r.connPc = "sleep" /\ commandsOf(r) = <<>> /\ r.nextId = nextId
              ELSE r.connPc = "qSupported" /\ commandsOf(r) = <<"qSupported">>

\* C24 witness: with acks negotiated away the handshake is through: the
\* reply to ?, the third request, has just resolved connect().
HandshakeOrderWitness ==
    /\ connPc = "ready"
    /\ ~useAck
    /\ noAckMode
    /\ Len(op) = 2
    /\ op[1] = "data"
    /\ op[2][1] = "reply"
    /\ op[2][2] = 3
    /\ op[2][3] = "?"

\* The no-ack attempt was answered with exactly OK in operation r.
agreed(r) ==
    \E j \in 1..Len(r.settled) :
      /\ r.settled[j].op = "QStartNoAckMode"
      /\ r.settled[j].how = "resolve"
      /\ r.settled[j].val = OK

\* The no-ack attempt ended in operation r in any other way: another reply,
\* a timeout, a socket error or close, a disconnect.
declined(r) ==
    \E j \in 1..Len(r.settled) :
      /\ r.settled[j].op = "QStartNoAckMode"
      /\ ~(r.settled[j].how = "resolve" /\ r.settled[j].val = OK)

noAckMove(r) ==
    /\ r.noAckMode = (noAckMode \/ agreed(r))
    /\ agreed(r) => connPc = "QStartNoAckMode" /\ r.connPc \in {"?", "ready", "failed"}
    /\ declined(r) =>
         /\ connPc = "QStartNoAckMode"
         /\ ~r.noAckMode
         /\ r.connPc = "?"
         /\ r.packetResolvers # <<>>
         /\ r.packetResolvers[Len(r.packetResolvers)] = [id |-> nextId, op |-> "?"]

rawBytesOf(r) ==
    [k \in 1..Len(SelectSeq(r.wrote, LAMBDA w : w.kind = "raw")) |->
        SelectSeq(r.wrote, LAMBDA w : w.kind = "raw")[k].data]

\* The acknowledgement each complete packet of operation r is due: '+' when
\* the two digits after '#' are the checksum of the payload, '-' when not.
acksDue(r) ==
    [k \in 1..Len(r.packets) |->
        IF parseInt16(r.packets[k].checksum) = computeChecksum(r.packets[k].data)
        THEN "+" ELSE "-"]

noAcks(r) == \A k \in 1..Len(r.wrote) : r.wrote[k] \notin {raw("+"), raw("-")}

\* Chunks with a packet whose checksum is wrong, next to the good ones.
AckChunks ==
    Chunks \cup {<<"$", "O", "K", "#", "0", "0">>,
                 <<"$", "O", "K", "#", "0", "0">> \o framePacket(S05),
                 framePacket(O4b) \o <<"$", "S", "0", "5", "#", "z", "z">>}

\* C26: while no-ack mode is off, handleData writes exactly one
\* acknowledgement per complete packet of the stream, in the order of the
\* packets: '+' when the checksum matches, '-' when it does not; the
\* acknowledgements of a chunk are written before any command a caller sends
\* in reaction to its packets, and a packet that got '-' reaches no caller.
\* While no-ack mode is on, no '+' and no '-' is written. No other operation
\* writes one.
OneAckPerPacket ==
    /\ dataEnabled =>
         \A chunk \in AckChunks :
           LET h == handleData(This, chunk)
               r == onData(This, chunk)
           IN /\ ~noAckMode => rawBytesOf(h) = acksDue(h)
              /\ noAckMode => noAcks(r)
              /\ commandsOf(h) = <<>>
              /\ Len(r.wrote) >= Len(h.wrote)
              /\ SubSeq(r.wrote, 1, Len(h.wrote)) = h.wrote
              /\ \A k \in (Len(h.wrote) + 1)..Len(r.wrote) : r.wrote[k].kind = "packet"
              /\ \A k \in 1..Len(h.packets) :
                   acksDue(h)[k] = "-" => h.packets[k].class = "mismatch"
              /\ Len(h.settled) =
                   Cardinality({k \in 1..Len(h.packets) : h.packets[k].class = "reply"})
    /\ \A id \in timers : noAcks(onTimeout(This, id))
    /\ \A r \in {continueOn(This), stepOn(This), pauseOn(This), waitForStopOn(This),
                 onError(This), onClose(This), disconnectOn(This)} : noAcks(r)
    /\ \A forceBreak \in BOOLEAN : noAcks(onConnected(This, forceBreak))

\* C26 witness: acks are on after the handshake, a request is pending, and a
\* chunk with a corrupt packet and a good one is acknowledged '-' then '+'.
OneAckPerPacketWitness ==
    /\ connPc = "ready"
    /\ ~noAckMode
    /\ dataEnabled
    /\ packetResolvers # <<>>
    /\ op[1] = "data"
    /\ rawBytesOf(handleData(This, <<"$", "O", "K", "#", "0", "0">> \o framePacket(S05)))
         = <<"-", "+">>

RECURSIVE unescape(_)
\* What the receiver of an X packet makes of its data: each pair 0x7d, b
\* is the byte b XOR 0x20.
unescape(bytes) ==
    IF bytes = <<>> THEN <<>>
    ELSE IF Head(bytes) = 125 /\ Len(bytes) >= 2
    THEN <<xor0x20(bytes[2])>> \o unescape(Tail(Tail(bytes)))
    ELSE <<Head(bytes)>> \o unescape(Tail(bytes))

\* C27: for every byte buffer, un-escaping what escapeXPacketData returns
\* gives the buffer back, whether or not it contains 0x23, 0x24 or 0x7d.
EscapeRoundTrip == Len(res) = 1 => unescape(res[1]) = arg

\* C27 witness: a buffer of 0x7d, 0x23, 0x24 has been escaped to six bytes.
EscapeRoundTripWitness ==
    /\ arg = <<125, 35, 36>>
    /\ Len(res) = 1
    /\ res[1] = <<125, 93, 125, 3, 125, 4>>

\* handleData extracted one packet, the payload given to sendPacket, and its
\* checksum passed.
verified == Len(op) = 2 /\ op[2][1] # "mismatch" /\ op[2][4] = arg

\* handleData extracted one packet and its checksum did not pass.
refused == Len(op) = 2 /\ op[2][1] = "mismatch"

roundTrip == IF res[1] = framePacket(arg) THEN verified ELSE refused

hasHash(str) == \E k \in 1..Len(str) : str[k] = "#"

\* C28 as stated: for every payload string P the packet sendPacket makes of
\* it passes handleData's verification, and with any single payload byte
\* changed it fails the verification.
ChecksumRoundTripAnyPayload == op[1] = "data" => roundTrip

\* C28 amended: for every payload string P without '#' the packet sendPacket
\* makes of it passes handleData's verification as P, and with any single
\* payload byte changed into a byte other than '#' it fails the
\* verification.
ChecksumRoundTrip ==
    (/\ op[1] = "data"
     /\ ~hasHash(arg)
     /\ ~hasHash(SubSeq(res[1], 2, Len(arg) + 1))) => roundTrip

\* C28 witness: the packet of OK arrived with its K changed to x and was
\* refused for its checksum.
ChecksumRoundTripWitness ==
    /\ arg = OK
    /\ Len(res) = 1
    /\ res[1] = <<"$", "O", "x", "#", "9", "a">>
    /\ op = <<"data", <<"mismatch", 0, "none", <<"O", "x">>>>>>

\* C29: unless WINUAE_MEMORY_WRITE_NO_PAUSE=1, whenever winuae_memory_write
\* reports success ('CPU is paused'), the running flag was false at every
\* command that wrote its bytes.
PausedWhenWritten ==
    \A i \in 1..Len(calls) :
      (/\ calls[i].name = "winuae_memory_write"
       /\ ~calls[i].noPause
       /\ calls[i].state = "resolved") =>
        \A n \in 1..Len(calls[i].issued) : ~calls[i].issued[n].running

\* The packets of operation r that went to the async-stop slot.
asyncStops(r) == SelectSeq(r.packets, LAMBDA x : x.class = "async")

\* Length of the pending queue when the k-th packet of a data event arrives:
\* every packet delivered before it took one request off the queue.
queueAt(r, k) ==
    Len(packetResolvers) - Cardinality({j \in 1..(k - 1) : r.packets[j].class = "reply"})

slotAfterData(r) ==
    /\ \A k \in 1..Len(r.packets) :
         r.packets[k].class = "async" <=>
           /\ parseInt16(r.packets[k].checksum) = computeChecksum(r.packets[k].data)
           /\ StopShape(r.packets[k].data)
           /\ queueAt(r, k) = 0
    /\ r.pendingStopReply =
         IF asyncStops(r) = <<>> THEN pendingStopReply
         ELSE asyncStops(r)[Len(asyncStops(r))].data

\* C30: the async-stop slot is empty or holds a payload that starts with S
\* or T; a data event puts a packet into the slot exactly when it is a stop
\* reply arriving while the pending queue is empty, and then the slot holds
\* the last such packet of the event; a data event without such a packet
\* and every timer and socket event leave the slot as it is, as do step()
\* and disconnect(); waitForStop(), pause() and continue() leave it as it is
\* or empty it.
AsyncStopSlot ==
    /\ pendingStopReply = NULL \/ StopShape(pendingStopReply)
    /\ dataEnabled => \A chunk \in AckChunks : slotAfterData(onData(This, chunk))
    /\ \A id \in timers : onTimeout(This, id).pendingStopReply = pendingStopReply
    /\ \A r \in {onError(This), onClose(This), disconnectOn(This), stepOn(This),
                 sendCommand(This, "g", "command")} :
         r.pendingStopReply = pendingStopReply
    /\ \A forceBreak \in BOOLEAN :
         onConnected(This, forceBreak).pendingStopReply = pendingStopReply
    /\ \A r \in {waitForStopOn(This), pauseOn(This), continueOn(This)} :
         r.pendingStopReply \in {pendingStopReply, NULL}
    /\ continueOn(This).pendingStopReply = NULL
    /\ Truthy(pendingStopReply) =>
         /\ waitForStopOn(This).pendingStopReply = NULL
         /\ pauseOn(This).pendingStopReply = NULL

\* C30 witness: one data event brought the reply of the only pending
\* request and then a stop reply, which found the queue empty and is in the
\* slot.
AsyncStopSlotWitness ==
    /\ Len(op) = 3
    /\ op[1] = "data"
    /\ op[2][1] = "reply"
    /\ op[3] = <<"async", 0, "none", S05>>
    /\ pendingStopReply = S05
    /\ packetResolvers = <<>>

\* Payloads that are neither console output nor a stop reply: OK, an error
\* reply, the empty reply, O alone, O followed by something that is not hex.
OtherPayloads == {OK, E01, <<>>, <<"O">>, <<"O", "x">>}

\* The protocol object of a result, without the record of the operation.
objectOf(r) ==
    [socket |-> r.socket, handlers |-> r.handlers, closeDue |-> r.closeDue,
     pendingData |-> r.pendingData, noAckMode |-> r.noAckMode,
     packetResolvers |-> r.packetResolvers, isRunning |-> r.isRunning,
     pendingStopReply |-> r.pendingStopReply, timers |-> r.timers, nextId |-> r.nextId,
     connPc |-> r.connPc, calls |-> r.calls]

\* C31: a valid packet that is neither console output nor a stop reply and
\* arrives while the pending queue is empty is dropped: the queue, the
\* async-stop slot, the running flag and everything else of the object are
\* as before, no promise is settled, and the bytes that follow it in the
\* same event are handled as if the packet had not been there.
UnsolicitedDropped ==
    (dataEnabled /\ packetResolvers = <<>> /\ pendingData = <<>>) =>
      \A p \in OtherPayloads :
        LET r == onData(This, framePacket(p))
        IN /\ outline(r) = <<<<"unsolicited", 0, "none", p>>>>
           /\ objectOf(r) = objectOf(This)
           /\ r.settled = <<>>
           /\ commandsOf(r) = <<>>
           /\ \A rest \in AckChunks :
                LET a == onData(This, framePacket(p) \o rest)
                    b == onData(This, rest)
                IN /\ objectOf(a) = objectOf(b)
                   /\ a.settled = b.settled
                   /\ outline(a) = <<<<"unsolicited", 0, "none", p>>>> \o outline(b)

\* C31 witness: the target runs, no request is pending, and one event
\* brought OK, which was dropped, and a stop reply, which went to the slot.
UnsolicitedDroppedWitness ==
    /\ Len(op) = 3
    /\ op[1] = "data"
    /\ op[2] = <<"unsolicited", 0, "none", OK>>
    /\ op[3] = <<"async", 0, "none", S05>>
    /\ pendingStopReply = S05
    /\ ~_isRunning
    /\ packetResolvers = <<>>

RECURSIVE stuffed(_, _)
\* out is the bytes of buffer in the order of the buffer, each 0x7d, 0x23
\* and 0x24 in the form of 0x7d followed by the byte XOR 0x20, which is not
\* one of the three itself, and every other byte as it is.
stuffed(out, buffer) ==
    IF buffer = <<>> THEN out = <<>>
    ELSE IF Head(buffer) \in {125, 35, 36}
    THEN /\ Len(out) >= 2
         /\ out[1] = 125
         /\ out[2] = xor0x20(Head(buffer))
         /\ out[2] \notin {125, 35, 36}
         /\ stuffed(Tail(Tail(out)), Tail(buffer))
    ELSE /\ Len(out) >= 1
         /\ out[1] = Head(buffer)
         /\ stuffed(Tail(out), Tail(buffer))

\* C32: what escapeXPacketData returns contains no byte 0x23 and no byte
\* 0x24, and every 0x7d in it is the prefix of a pair whose second byte is
\* the original byte XOR 0x20.
EscapedHasNoFraming ==
    Len(res) = 1 =>
      /\ \A k \in 1..Len(res[1]) : res[1][k] # 35 /\ res[1][k] # 36
      /\ stuffed(res[1], arg)

\* C32 witness: a buffer with '#' between two plain bytes has been escaped.
EscapedHasNoFramingWitness ==
    /\ arg = <<65, 35, 255>>
    /\ Len(res) = 1
    /\ res[1] = <<65, 125, 3, 255>>

sessionKept(r) ==
    /\ r.pendingStopReply = pendingStopReply
    /\ r.isRunning = _isRunning
    /\ r.noAckMode = noAckMode

\* C33: disconnect() and the 'error' and 'close' events of the socket leave
\* the async-stop slot, the running flag and the no-ack flag as they are;
\* after disconnect() this.socket is null and connected is false.
TeardownKeepsFlags ==
    /\ sessionKept(disconnectOn(This))
    /\ disconnectOn(This).socket = "null"
    /\ ~connected(disconnectOn(This))
    /\ (socket = "open" /\ handlers) => sessionKept(onError(This))
    /\ closeEnabled => sessionKept(onClose(This))
    /\ op[1] = "disconnect" => (socket = "null" /\ ~connected(This))

\* C33 witness: disconnect() was called in no-ack mode while the target was
\* running, and both flags are still set.
TeardownKeepsFlagsWitness ==
    /\ op = <<"disconnect">>
    /\ socket = "null"
    /\ noAckMode
    /\ _isRunning
    /\ connPc = "ready"

idsIn(resolvers) == {resolvers[k].id : k \in 1..Len(resolvers)}

\* What operation r settled was pending, is settled once in r, is pending
\* no more, and no timer is left for it; the queue keeps its order.
settlesPending(r) ==
    /\ idsOf(r.settled) \subseteq queueIds
    /\ \A j, k \in 1..Len(r.settled) : r.settled[j].id = r.settled[k].id => j = k
    /\ idsOf(r.settled) \cap idsIn(r.packetResolvers) = {}
    /\ r.timers = idsIn(r.packetResolvers)
    /\ idsIn(r.packetResolvers) \cap queueIds = queueIds \ idsOf(r.settled)

\* C34: every registered request is settled at most once, and only by a
\* delivered reply, by its own timer or by rejectAll; in every reachable
\* state the queue holds exactly the registered requests that are not
\* settled, in the order of registration; and timers exist for the pending
\* requests only, so that the timer of a settled request cannot fire.
SettledExactlyOnce ==
    /\ twice = {}
    /\ queueIds \cap done = {}
    /\ queueIds \cup done = 1..(nextId - 1)
    /\ \A j, k \in 1..Len(packetResolvers) :
         j < k => packetResolvers[j].id < packetResolvers[k].id
    /\ timers = queueIds
    /\ dataEnabled =>
         \A chunk \in AckChunks :
           LET r == onData(This, chunk)
               replies == SelectSeq(r.packets, LAMBDA x : x.class = "reply")
           IN /\ settlesPending(r)
              /\ Len(r.settled) = Len(replies)
              /\ \A k \in 1..Len(replies) :
                   /\ r.settled[k].id = packetResolvers[k].id
                   /\ r.settled[k].id = replies[k].to
                   /\ r.settled[k].how = "resolve"
                   /\ r.settled[k].val = replies[k].data
    /\ \A id \in timers :
         LET r == onTimeout(This, id)
         IN /\ settlesPending(r)
            /\ Len(r.settled) = 1
            /\ r.settled[1].id = id
            /\ r.settled[1].how = "reject"
    /\ \A r \in {onError(This), onClose(This), disconnectOn(This)} :
         /\ settlesPending(r)
         /\ Len(r.settled) = Len(packetResolvers)
         /\ \A k \in 1..Len(r.settled) :
              /\ r.settled[k].id = packetResolvers[k].id
              /\ r.settled[k].how = "reject"
    /\ \A r \in {continueOn(This), stepOn(This), pauseOn(This), waitForStopOn(This),
                 sendCommand(This, "g", "command")} :
         /\ r.settled = <<>>
         /\ r.timers = idsIn(r.packetResolvers)
         /\ queueIds \subseteq idsIn(r.packetResolvers)

\* C34 witness: of four requests one was answered, one timed out and the
\* rest was rejected by the 'error' event; each is settled once and the
\* queue is empty.
SettledExactlyOnceWitness ==
    /\ op = <<"error">>
    /\ done = 1..4
    /\ Cardinality(expired) = 1
    /\ nDelivered = 0
    /\ ~clean
    /\ twice = {}
    /\ packetResolvers = <<>>
    /\ timers = {}

\* C35: provided that timers fire, every request registered by
\* sendCommand, waitForStop or pause is settled in the end, whether or not
\* the target replies and whatever the socket was when it was issued.
EveryRequestSettled == \A id \in 1..MaxReq : (id \in queueIds) ~> (id \in done)

\* The steps that satisfy timerFires are the timeout steps.
TimerFiresIsTimeout == [][timerFires <=> timeout]_vars

\* C35 witness: two requests issued with this.socket null were both rejected
\* by their timers.
EveryRequestSettledWitness ==
    /\ op = <<"timeout">>
    /\ socket = "null"
    /\ expired = {3, 4}
    /\ done = 1..4
    /\ queueIds = {}

\* C36: in every reachable state, whenever the async-stop slot is populated
\* the running flag is false.
SlotImpliesStopped == Truthy(pendingStopReply) => ~_isRunning

\* C37: once continue() has been issued, the next stop reply of the target
\* goes to the async-stop slot or to a request of waitForStop, pause or
\* step: here continue() was the last operation, no request is pending, a
\* command (g of readRegisters) is issued while the target runs, and then
\* the stop reply arrives.
StopReplyOnlyToWaiters ==
    (/\ op = <<"continue">>
     /\ connPc = "ready"
     /\ dataEnabled
     /\ packetResolvers = <<>>) =>
      \A chunk \in {framePacket(S05), framePacket(T05)} :
        LET r == onData(sendCommand(This, "g", "command"), chunk)
        IN \A k \in 1..Len(r.packets) :
             r.packets[k].class = "reply" =>
               r.packets[k].caller \in {"waitForStop", "pause", "step"}

\* C38: connected is true only if the most recent connect() completed and
\* neither disconnect() nor the end of the socket came after it: it is false
\* while connect() is in progress and after connect() has rejected.
ConnectedOnlyWhenReady == connected(This) => (connPc = "ready" /\ socket = "open")

\* C39: from the start of connect() until the QStartNoAckMode of that
\* connection has been answered OK the no-ack flag is false, also on a
\* client object that was connected in no-ack mode before.
AckModeUntilNegotiated ==
    connPc \in {"tcp", "sleep", "qSupported", "QStartNoAckMode"} => ~noAckMode

\* The state between two sessions is one the first session ends in.
SessionEndsInNoAckMode ==
    /\ socket = "null"
    /\ ~handlers
    /\ ~closeDue
    /\ noAckMode
    /\ _isRunning
    /\ packetResolvers = <<>>
    /\ pendingData = <<>>
    /\ pendingStopReply = NULL
    /\ connPc = "ready"

\* C40: when connect() has resolved, each command of the handshake was
\* resolved with the reply of the target to that command and no request is
\* pending, wherever in the handshake the stop reply for the interrupt byte
\* arrived.
HandshakeRepliesMatch ==
    connPc = "ready" =>
      /\ packetResolvers = <<>>
      /\ \A k \in 1..Len(results.settled) :
           /\ results.settled[k].how = "resolve"
           /\ results.settled[k].val = replyTo(results.settled[k].op)

====
